---- MODULE Spec2Model ----
(***************************************************************************)
(* Metaspace allocator of tstuefe/jdk: the chunk/buddy layer, the          *)
(* per-classloader arena (MetaspaceArena) and the facade with its          *)
(* free-block indexes (ClassLoaderMetaspaceImpl).                          *)
(*                                                                         *)
(* Addresses and sizes are in words; address 0 is nullptr.  The chunk      *)
(* ladder is scaled down to three levels (8, 4 and 2 words).               *)
(***************************************************************************)
EXTENDS Integers, Sequences, FiniteSets, TLC

(***************************************************************************)
(* Bounds of the model                                                     *)
(***************************************************************************)
\* number of facade operations (allocate, deallocate) in one run
MaxOps == 4
\* largest of the small request sizes, in words
MaxSmallRequest == 3

(***************************************************************************)
(* Program constants                                                       *)
(***************************************************************************)
NULL == 0

\* chunklevel::MAX_CHUNK_WORD_SIZE, ROOT_CHUNK_LEVEL, HIGHEST_CHUNK_LEVEL (scaled)
MAX_CHUNK_WORD_SIZE == 8
ROOT_CHUNK_LEVEL == 0
LOWEST_CHUNK_LEVEL == 0
HIGHEST_CHUNK_LEVEL == 2
Levels == LOWEST_CHUNK_LEVEL..HIGHEST_CHUNK_LEVEL

\* Settings::commit_granule_words() (scaled)
commit_granule_words == 2
\* Settings::virtual_space_node_default_word_size() (scaled: two root chunks)
virtual_space_node_default_word_size == 16

\* metaspaceArena.cpp:58 (LP64)
minimum_allocation_words == 1
\* AllocationAlignmentWordSize: the alignment of the non-class arena
AllocationAlignmentWordSize == 1
\* the Klass alignment handed to the class arena, in words
klass_alignment == 2
\* sizeof(Klass), as the number the code compares word sizes with (scaled)
sizeof_Klass == 2
\* BinList32::MaxWordSize: sizes below it go to the bin list (scaled)
BinListMaxWordSize == 4

\* The two metaspace contexts: non-class and class space.
Contexts == {"nc", "c"}
CtxOf(is_class) == IF is_class THEN "c" ELSE "nc"

\* Address layout: the class space is one fixed reservation of one root chunk,
\* the nodes of the expandable non-class list are reserved behind it.
ClassSpaceBase == 8
ClassSpaceWords == 8
NonClassBase == 16

\* Metaspace::is_in_class_space(p)
is_in_class_space(p) == p >= ClassSpaceBase /\ p < ClassSpaceBase + ClassSpaceWords

\* align_up / is_aligned (utilities/align.hpp)
align_up(x, a) == ((x + a - 1) \div a) * a
is_aligned(x, a) == x % a = 0
MIN2(a, b) == IF a < b THEN a ELSE b
MAX2(a, b) == IF a > b THEN a ELSE b

(***************************************************************************)
(* MetaBlock (metablock.hpp)                                               *)
(***************************************************************************)
\* MetaBlock(): _base(nullptr), _word_size(0)
EmptyBlock == [base |-> NULL, word_size |-> 0]
\* MetaBlock(p, word_size): _base(p), _word_size(0)  -- the size is dropped
MetaBlock(p, word_size) == [base |-> p, word_size |-> 0]
\* MetaBlock::is_empty
is_empty(b) == b.base = NULL
\* MetaBlock::tail(head_size)
tail(b, head_size) ==
  IF ~is_empty(b) /\ head_size < b.word_size
  THEN MetaBlock(b.base + head_size, b.word_size - head_size)
  ELSE EmptyBlock

(***************************************************************************)
(* chunklevel                                                              *)
(***************************************************************************)
word_size_for_level(l) == MAX_CHUNK_WORD_SIZE \div (2 ^ l)
\* the highest level (smallest chunk) that still holds n words
level_fitting_word_size(n) ==
  IF n > MAX_CHUNK_WORD_SIZE THEN ROOT_CHUNK_LEVEL
  ELSE CHOOSE l \in Levels :
         /\ word_size_for_level(l) >= n
         /\ \A k \in Levels : word_size_for_level(k) >= n => k <= l

\* ArenaGrowthPolicy::get_level_at_step: chunk sizes 2, 2, 4, 4, ...
growth_policy == <<2, 2, 1>>
get_level_at_step(step) ==
  IF step + 1 <= Len(growth_policy) THEN growth_policy[step + 1]
  ELSE growth_policy[Len(growth_policy)]

(***************************************************************************)
(* The allocator state is passed through the operators below as a record   *)
(* W with the fields                                                       *)
(*   chunk     : base address -> [level, used, committed, in_use]          *)
(*   freelist  : context -> level -> sequence of chunk bases               *)
(*   nodes     : context -> sequence of [base, word_size, used_words]      *)
(*   salvaged  : context -> sequence of root chunk bases                   *)
(*   committed : words the CommitLimiter has granted                       *)
(*   limit     : the CommitLimiter's cap                                   *)
(*   arena_chunks       : context -> the arena's chunks, current one first *)
(*   used_words_counter : context -> the shared used-words counter         *)
(*   merges    : the merges of the running operation, in their order       *)
(*   returns   : the chunks the running operation passed to return_chunk   *)
(***************************************************************************)

(***************************************************************************)
(* Metachunk                                                               *)
(***************************************************************************)
chunk_word_size(c) == word_size_for_level(c.level)
free_words(c) == chunk_word_size(c) - c.used
free_below_committed_words(c) == c.committed - c.used
is_root_chunk(c) == c.level = ROOT_CHUNK_LEVEL
\* a chunk leads its buddy pair iff it is aligned to the size of its parent
is_leader(b, c) ==
  is_root_chunk(c) \/ is_aligned(b, word_size_for_level(c.level - 1))
\* Metachunk::top
chunk_top(b, c) == b + c.used

\* CommitLimiter: may `words` more words be committed?
commit_allowed(W, words) == W.committed + words <= W.limit

\* Metachunk::ensure_committed(new_committed_words): extend the committed
\* prefix in whole granules, subject to the CommitLimiter; a refusal leaves
\* the state unchanged.
ensure_committed(W, b, new_committed_words) ==
  LET c == W.chunk[b]
      target == MIN2(align_up(new_committed_words, commit_granule_words),
                     chunk_word_size(c))
      delta == target - c.committed
  IN IF new_committed_words <= c.committed THEN [W |-> W, ok |-> TRUE]
     ELSE IF ~commit_allowed(W, delta) THEN [W |-> W, ok |-> FALSE]
     ELSE [W |-> [W EXCEPT !.chunk[b].committed = target,
                           !.committed = @ + delta],
           ok |-> TRUE]

\* Metachunk::ensure_committed_additional(additional_word_size)
ensure_committed_additional(W, b, additional_word_size) ==
  ensure_committed(W, b, W.chunk[b].used + additional_word_size)

\* Metachunk::allocate(request_word_size): bump the top inside the committed
\* prefix; null when the committed room does not suffice.
chunk_allocate(W, b, request_word_size) ==
  LET c == W.chunk[b] IN
  IF free_below_committed_words(c) < request_word_size
  THEN [W |-> W, p |-> NULL]
  ELSE [W |-> [W EXCEPT !.chunk[b].used = @ + request_word_size],
        p |-> chunk_top(b, c)]

(***************************************************************************)
(* FreeChunkList / FreeChunkListVector (freeChunkList.hpp, .cpp)           *)
(***************************************************************************)
\* DlList::remove
list_remove(list, b) == SelectSeq(list, LAMBDA x : x # b)

\* a list that takes every chunk at the back
FreeChunkList_add_at_back(list, chunk, b) == Append(list, b)

\* FreeChunkList::add: uncommitted chunks go to the back, others to the front
FreeChunkList_add(list, chunk, b) ==
  IF chunk[b].committed = 0 THEN Append(list, b) ELSE <<b>> \o list

\* a search that looks at the chunk in front only
front_chunk_if_committed(list, chunk, i, min_committed_words) ==
  IF i > Len(list) THEN NULL
  ELSE IF chunk[list[i]].committed >= min_committed_words
       THEN list[i] ELSE NULL

\* FreeChunkList::first_minimally_committed: walk from the front while the
\* chunk is committed, but not enough; stop at the first uncommitted chunk.
RECURSIVE first_minimally_committed_from(_, _, _, _)
first_minimally_committed_from(list, chunk, i, min_committed_words) ==
  IF i > Len(list) THEN NULL
  ELSE IF /\ chunk[list[i]].committed < min_committed_words
          /\ chunk[list[i]].committed > 0
       THEN first_minimally_committed_from(list, chunk, i + 1, min_committed_words)
       ELSE IF chunk[list[i]].committed >= min_committed_words
            THEN list[i] ELSE NULL
first_minimally_committed(list, chunk, min_committed_words) ==
  first_minimally_committed_from(list, chunk, 1, min_committed_words)

\* FreeChunkListVector::search_chunk_ascending: levels level..max_level
RECURSIVE search_chunk_ascending(_, _, _, _, _)
search_chunk_ascending(W, ctx, level, max_level, min_committed_words) ==
  IF level > max_level THEN [W |-> W, c |-> NULL]
  ELSE LET c == first_minimally_committed(W.freelist[ctx][level], W.chunk,
                                          min_committed_words)
       IN IF c # NULL
          THEN [W |-> [W EXCEPT !.freelist[ctx][level] = list_remove(@, c)],
                c |-> c]
          ELSE search_chunk_ascending(W, ctx, level + 1, max_level,
                                      min_committed_words)

\* FreeChunkListVector::search_chunk_descending: levels level..root
RECURSIVE search_chunk_descending(_, _, _, _)
search_chunk_descending(W, ctx, level, min_committed_words) ==
  IF level < LOWEST_CHUNK_LEVEL THEN [W |-> W, c |-> NULL]
  ELSE LET c == first_minimally_committed(W.freelist[ctx][level], W.chunk,
                                          min_committed_words)
       IN IF c # NULL
          THEN [W |-> [W EXCEPT !.freelist[ctx][level] = list_remove(@, c)],
                c |-> c]
          ELSE search_chunk_descending(W, ctx, level - 1, min_committed_words)

(***************************************************************************)
(* VirtualSpaceNode / VirtualSpaceList (virtualSpaceList.cpp)              *)
(***************************************************************************)
\* a class-space list that may reserve further nodes
always_expandable(ctx) == TRUE

\* the class-space list wraps one fixed reservation, the other list expands
can_expand(ctx) == ctx = "nc"

node_free_words(n) == n.word_size - n.used_words

RECURSIVE SumWordSize(_)
SumWordSize(ns) == IF ns = <<>> THEN 0 ELSE Head(ns).word_size + SumWordSize(Tail(ns))

\* VirtualSpaceNode::allocate_root_chunk on the first node: carve the next
\* root chunk; it is reserved only, nothing is committed.
node_allocate_root_chunk(W, ctx) ==
  LET n == Head(W.nodes[ctx]) IN
  IF node_free_words(n) < MAX_CHUNK_WORD_SIZE THEN [W |-> W, c |-> NULL]
  ELSE LET b == n.base + n.used_words
           rc == [level |-> ROOT_CHUNK_LEVEL, used |-> 0, committed |-> 0,
                  in_use |-> FALSE]
       IN [W |-> [W EXCEPT
                    !.chunk = [x \in DOMAIN W.chunk \cup {b} |->
                                 IF x = b THEN rc ELSE W.chunk[x]],
                    !.nodes[ctx] = <<[n EXCEPT !.used_words = @ + MAX_CHUNK_WORD_SIZE]>>
                                   \o Tail(W.nodes[ctx])],
           c |-> b]

\* VirtualSpaceList::create_new_node: reserve a node and make it the first
create_new_node(W, ctx, word_size) ==
  LET n == [base |-> NonClassBase + SumWordSize(W.nodes[ctx]),
            word_size |-> word_size, used_words |-> 0]
  IN [W EXCEPT !.nodes[ctx] = <<n>> \o @]

\* a root chunk request that passes by the pool of salvaged root chunks
allocate_root_chunk_passing_pool(W, ctx) ==
  IF \/ W.nodes[ctx] = <<>>
     \/ node_free_words(Head(W.nodes[ctx])) < MAX_CHUNK_WORD_SIZE
  THEN IF can_expand(ctx)
       THEN node_allocate_root_chunk(
              create_new_node(W, ctx, virtual_space_node_default_word_size), ctx)
       ELSE [W |-> W, c |-> NULL]
  ELSE node_allocate_root_chunk(W, ctx)

\* VirtualSpaceList::allocate_root_chunk
allocate_root_chunk(W, ctx) ==
  IF W.salvaged[ctx] # <<>>
  THEN [W |-> [W EXCEPT !.salvaged[ctx] = Tail(@)], c |-> Head(W.salvaged[ctx])]
  ELSE IF \/ W.nodes[ctx] = <<>>
          \/ node_free_words(Head(W.nodes[ctx])) < MAX_CHUNK_WORD_SIZE
       THEN IF can_expand(ctx)
            THEN node_allocate_root_chunk(
                   create_new_node(W, ctx, virtual_space_node_default_word_size), ctx)
            ELSE [W |-> W, c |-> NULL]
       ELSE node_allocate_root_chunk(W, ctx)

\* VirtualSpaceList::salvage_first_node: carve root chunks from the first
\* node until it has none left; each goes to the back of the pool.  r is the
\* outcome of the carving just made.
\* a list that carves the rest of the old first node and forgets it
carved_and_forgotten(ctx, r) ==
  IF r.c = NULL THEN r.W ELSE node_allocate_root_chunk(r.W, ctx).W

RECURSIVE salvage_next(_, _)
salvage_next(ctx, r) ==
  IF r.c = NULL THEN r.W
  ELSE salvage_next(ctx,
         node_allocate_root_chunk(
           [r.W EXCEPT !.salvaged[ctx] = Append(@, r.c)], ctx))
salvage_first_node(W, ctx) == salvage_next(ctx, node_allocate_root_chunk(W, ctx))

\* a list that leaves the rest of the old first node behind
first_node_abandoned(W, ctx) == W

\* allocate_multiple_root_chunks, lines 174-176
first_node_salvaged(W, ctx) ==
  IF W.nodes[ctx] # <<>> THEN salvage_first_node(W, ctx) ELSE W

\* allocate_multiple_root_chunks, lines 187-192: num root chunks are carved
\* from the first node and pushed to the back of out; r is the outcome of
\* the carving just made.  Yields [W, out, ok].
RECURSIVE root_chunks_pushed(_, _, _, _)
root_chunks_pushed(ctx, num, out, r) ==
  IF num = 1 THEN [W |-> r.W, out |-> Append(out, r.c), ok |-> TRUE]
  ELSE root_chunks_pushed(ctx, num - 1, Append(out, r.c),
                          node_allocate_root_chunk(r.W, ctx))

\* VirtualSpaceList::allocate_multiple_root_chunks(num, out)
allocate_multiple_root_chunks(W, ctx, num, out) ==
  IF \/ W.nodes[ctx] = <<>>
     \/ node_free_words(Head(W.nodes[ctx])) < num * MAX_CHUNK_WORD_SIZE
  THEN IF can_expand(ctx)
       THEN root_chunks_pushed(ctx, num, out,
              node_allocate_root_chunk(
                create_new_node(first_node_salvaged(W, ctx), ctx,
                                MAX2(num * MAX_CHUNK_WORD_SIZE,
                                     virtual_space_node_default_word_size)),
                ctx))
       ELSE [W |-> W, out |-> out, ok |-> FALSE]
  ELSE root_chunks_pushed(ctx, num, out, node_allocate_root_chunk(W, ctx))

(***************************************************************************)
(* ChunkManager                                                            *)
(***************************************************************************)
\* split a chunk down to target_level; every split-off follower goes to the
\* free list of its level.  Splitting commits nothing.
RECURSIVE split_chunk_and_add_splinters(_, _, _, _)
split_chunk_and_add_splinters(W, ctx, b, target_level) ==
  LET c == W.chunk[b] IN
  IF c.level >= target_level THEN W
  ELSE LET nl == c.level + 1
           half == word_size_for_level(nl)
           fb == b + half
           lead == [c EXCEPT !.level = nl, !.committed = MIN2(c.committed, half)]
           foll == [level |-> nl, used |-> 0,
                    committed |-> MAX2(c.committed - half, 0), in_use |-> FALSE]
           chunk1 == [x \in DOMAIN W.chunk \cup {fb} |->
                        IF x = b THEN lead ELSE IF x = fb THEN foll ELSE W.chunk[x]]
           W1 == [W EXCEPT !.chunk = chunk1,
                           !.freelist[ctx][nl] = FreeChunkList_add(@, chunk1, fb)]
       IN split_chunk_and_add_splinters(W1, ctx, b, target_level)

\* the buddy of the chunk at b, when it exists as one free, unsplit chunk
buddy_base(b, c) ==
  IF is_leader(b, c) THEN b + chunk_word_size(c) ELSE b - chunk_word_size(c)
buddy_is_free_and_unsplit(W, b) ==
  LET c == W.chunk[b]
      bb == buddy_base(b, c)
  IN /\ ~is_root_chunk(c)
     /\ bb \in DOMAIN W.chunk
     /\ W.chunk[bb].level = c.level
     /\ ~W.chunk[bb].in_use

\* what a merge of the chunk at b with the chunk at bb did
merge_record(W, b, bb, merged) ==
  [chunk |-> b, buddy |-> bb,
   chunk_level |-> W.chunk[b].level, chunk_in_use |-> W.chunk[b].in_use,
   chunk_is_leader |-> is_leader(b, W.chunk[b]),
   buddy_is_chunk |-> bb \in DOMAIN W.chunk,
   buddy_level |-> IF bb \in DOMAIN W.chunk THEN W.chunk[bb].level ELSE -1,
   buddy_in_use |-> IF bb \in DOMAIN W.chunk THEN W.chunk[bb].in_use ELSE FALSE,
   merged_level |-> merged.level]

\* merge the chunk at b with its buddy: the leader takes over the range of
\* both and moves one level up; the buddy leaves its free list.
merge_with_buddy(W, ctx, b) ==
  LET c == W.chunk[b]
      bb == buddy_base(b, c)
      lb == MIN2(b, bb)
      fb == MAX2(b, bb)
      sz == chunk_word_size(c)
      lc == W.chunk[lb]
      merged == [lc EXCEPT !.level = c.level - 1,
                           !.committed = IF lc.committed = sz
                                         THEN sz + W.chunk[fb].committed
                                         ELSE lc.committed,
                           !.used = c.used, !.in_use = c.in_use]
  IN [W EXCEPT !.chunk = [x \in DOMAIN W.chunk \ {fb} |->
                            IF x = lb THEN merged ELSE W.chunk[x]],
               !.freelist[ctx][c.level] = list_remove(@, bb),
               !.merges = Append(@, merge_record(W, b, bb, merged))]

RECURSIVE merge_repeatedly(_, _, _)
merge_repeatedly(W, ctx, b) ==
  IF buddy_is_free_and_unsplit(W, b)
  THEN merge_repeatedly(merge_with_buddy(W, ctx, b), ctx,
                        MIN2(b, buddy_base(b, W.chunk[b])))
  ELSE [W |-> W, c |-> b]

\* ChunkManager::return_chunk: mark free, coalesce, insert into the free list
return_chunk_add(ctx, m) ==
  [m.W EXCEPT !.freelist[ctx][m.W.chunk[m.c].level] =
                 FreeChunkList_add(@, m.W.chunk, m.c)]
return_chunk(W, ctx, b) ==
  return_chunk_add(ctx,
    merge_repeatedly([W EXCEPT !.chunk[b].in_use = FALSE, !.chunk[b].used = 0,
                                !.returns = Append(@, b)],
                     ctx, b))

\* an enlargement that does not ask whether the buddy is free
attempt_enlarge_chunk_with_any_buddy(W, ctx, b) ==
  IF /\ is_leader(b, W.chunk[b])
     /\ ~is_root_chunk(W.chunk[b])
     /\ buddy_base(b, W.chunk[b]) \in DOMAIN W.chunk
     /\ W.chunk[buddy_base(b, W.chunk[b])].level = W.chunk[b].level
  THEN [W |-> merge_with_buddy(W, ctx, b), ok |-> TRUE]
  ELSE [W |-> W, ok |-> FALSE]

\* ChunkManager::attempt_enlarge_chunk: merge an in-use leader with its free,
\* unsplit buddy in place
attempt_enlarge_chunk(W, ctx, b) ==
  IF is_leader(b, W.chunk[b]) /\ buddy_is_free_and_unsplit(W, b)
  THEN [W |-> merge_with_buddy(W, ctx, b), ok |-> TRUE]
  ELSE [W |-> W, ok |-> FALSE]

\* the free-list searches of get_chunk, in their order: a sufficiently
\* committed chunk of the preferred or a smaller size, a larger committed
\* chunk, then the same for chunks that need a commit
first_found(s, other) == IF s.c # NULL THEN s ELSE other
search_free_chunk(W, ctx, preferred_level, max_level, min_committed_words) ==
  first_found(search_chunk_ascending(W, ctx, preferred_level, max_level,
                                     min_committed_words),
  first_found(search_chunk_descending(W, ctx, preferred_level, min_committed_words),
  first_found(search_chunk_ascending(W, ctx, preferred_level, max_level, 0),
              search_chunk_descending(W, ctx, preferred_level, 0))))

\* get_chunk, last step: commit the chunk far enough, or give it back
get_chunk_commit(W1, ctx, c, e) ==
  IF ~e.ok THEN [W |-> return_chunk(W1, ctx, c), c |-> NULL]
  ELSE [W |-> [e.W EXCEPT !.chunk[c].in_use = TRUE], c |-> c]

\* get_chunk, second step: split the chunk found down to the preferred level
get_chunk_split(W1, ctx, c, min_committed_words) ==
  get_chunk_commit(W1, ctx, c, ensure_committed(W1, c, min_committed_words))

\* get_chunk, after the search: r is the chunk found, or none
get_chunk_found(ctx, preferred_level, min_committed_words, r) ==
  IF r.c = NULL THEN [W |-> r.W, c |-> NULL]
  ELSE get_chunk_split(
         split_chunk_and_add_splinters(r.W, ctx, r.c, preferred_level),
         ctx, r.c, min_committed_words)

\* ChunkManager::get_chunk(preferred_level, max_level, min_committed_words)
get_chunk(W, ctx, preferred_level, max_level, min_committed_words) ==
  get_chunk_found(ctx, preferred_level, min_committed_words,
    first_found(search_free_chunk(W, ctx, preferred_level, max_level,
                                  min_committed_words),
                allocate_root_chunk(W, ctx)))

(***************************************************************************)
(* MetaspaceArena (metaspaceArena.cpp)                                     *)
(***************************************************************************)
\* Settings::enlarge_chunks_in_place()
enlarge_chunks_in_place == TRUE

\* the arena's _alignment_words: klass alignment for the class arena
alignment_words(ctx) ==
  IF ctx = "c" THEN klass_alignment ELSE AllocationAlignmentWordSize

\* MetaspaceArena::current_chunk: the most recently added chunk
current_chunk(W, ctx) ==
  IF W.arena_chunks[ctx] = <<>> THEN NULL ELSE Head(W.arena_chunks[ctx])

\* MetaspaceArena::next_chunk_level
next_chunk_level(W, ctx) == get_level_at_step(Len(W.arena_chunks[ctx]))

\* an arena that retires its chunks as they are
nothing_salvaged(W, ctx, b) == [W |-> W, block |-> EmptyBlock]

\* MetaspaceArena::salvage_chunk
salvage_chunk_take(ctx, remaining_words, a) ==
  [W |-> [a.W EXCEPT !.used_words_counter[ctx] = @ + remaining_words],
   block |-> MetaBlock(a.p, remaining_words)]
salvage_chunk(W, ctx, b) ==
  IF free_below_committed_words(W.chunk[b]) >= minimum_allocation_words
  THEN salvage_chunk_take(ctx, free_below_committed_words(W.chunk[b]),
         chunk_allocate(W, b, free_below_committed_words(W.chunk[b])))
  ELSE [W |-> W, block |-> EmptyBlock]

\* a build without the guarantee of allocate_new_chunk
guarantee_dropped(requested_word_size) == FALSE

\* the guarantee of allocate_new_chunk fails for this request
request_exceeds_max_chunk(requested_word_size) ==
  requested_word_size > MAX_CHUNK_WORD_SIZE

\* MetaspaceArena::allocate_new_chunk.  Yields [W, c, fatal].
allocate_new_chunk_got(g) == [W |-> g.W, c |-> g.c, fatal |-> "none"]
allocate_new_chunk(W, ctx, requested_word_size) ==
  IF request_exceeds_max_chunk(requested_word_size)
  THEN [W |-> W, c |-> NULL, fatal |-> "guarantee"]
  ELSE allocate_new_chunk_got(
         get_chunk(W, ctx,
                   MIN2(level_fitting_word_size(requested_word_size),
                        next_chunk_level(W, ctx)),
                   level_fitting_word_size(requested_word_size),
                   requested_word_size))

\* an arena that asks for the enlargement however much room is needed
refused_whatever_the_size(W, ctx, b, c, requested_word_size) ==
  \/ ~enlarge_chunks_in_place
  \/ is_root_chunk(c)
  \/ c.used + requested_word_size > MAX_CHUNK_WORD_SIZE
  \/ ~is_leader(b, c)
  \/ next_chunk_level(W, ctx) > c.level

\* MetaspaceArena::attempt_enlarge_current_chunk
enlargement_refused(W, ctx, b, c, requested_word_size) ==
  \/ ~enlarge_chunks_in_place
  \/ is_root_chunk(c)
  \/ c.used + requested_word_size > MAX_CHUNK_WORD_SIZE
  \/ level_fitting_word_size(c.used + requested_word_size) < c.level - 1
  \/ ~is_leader(b, c)
  \/ next_chunk_level(W, ctx) > c.level
attempt_enlarge_current_chunk(W, ctx, requested_word_size) ==
  IF enlargement_refused(W, ctx, current_chunk(W, ctx),
                         W.chunk[current_chunk(W, ctx)], requested_word_size)
  THEN [W |-> W, ok |-> FALSE]
  ELSE attempt_enlarge_chunk(W, ctx, current_chunk(W, ctx))

\* the alignment gap in front of the block
alignment_gap_word_size(top, alignment) == align_up(top, alignment) - top

\* an arena that allocates only the gap from the current chunk
gap_only(requested_word_size, gap) == gap

\* what the arena allocates from the current chunk: the request and the gap
requested_word_size_plus_gap(requested_word_size, gap) == requested_word_size + gap

\* an arena whose block ends, instead of starts, at the old top of the chunk
allocated_below_top(ctx, requested_word_size, gap, calls, al) ==
  [W |-> al.W,
   result |-> MetaBlock(al.p - requested_word_size, requested_word_size),
   wastage |-> MetaBlock(al.p, gap), calls |-> calls]

\* MetaspaceArena::allocate, lines 246-254: allocate from the current chunk;
\* the block starts behind the gap, the gap is the wastage
current_chunk_allocated(ctx, requested_word_size, gap, calls, al) ==
  [W |-> al.W,
   result |-> MetaBlock(align_up(al.p, alignment_words(ctx)), requested_word_size),
   wastage |-> MetaBlock(al.p, gap), calls |-> calls]

\* MetaspaceArena::allocate, lines 236-254: commit the current chunk far
\* enough; cm is the outcome of the commit
current_chunk_committed(ctx, cur, requested_word_size, gap, calls, cm) ==
  IF cm.ok
  THEN current_chunk_allocated(ctx, requested_word_size, gap, calls,
         chunk_allocate(cm.W, cur,
                        requested_word_size_plus_gap(requested_word_size, gap)))
  ELSE [W |-> cm.W, result |-> EmptyBlock, wastage |-> EmptyBlock, calls |-> calls]

\* MetaspaceArena::allocate, lines 224-244: en is the outcome of the
\* enlargement, when one was needed
current_chunk_enlarged(ctx, cur, requested_word_size, gap, calls, en) ==
  IF en.ok
  THEN current_chunk_committed(ctx, cur, requested_word_size, gap, calls,
         ensure_committed_additional(en.W, cur,
            requested_word_size_plus_gap(requested_word_size, gap)))
  ELSE [W |-> en.W, result |-> EmptyBlock, wastage |-> EmptyBlock, calls |-> calls]

\* MetaspaceArena::allocate, lines 209-255: the attempt on the current chunk.
\* Yields [W, result, wastage, calls].
allocate_with_gap(W, ctx, cur, requested_word_size, gap) ==
  IF free_words(W.chunk[cur]) < requested_word_size_plus_gap(requested_word_size, gap)
  THEN current_chunk_enlarged(ctx, cur, requested_word_size, gap,
         <<"attempt_enlarge_current_chunk">>,
         attempt_enlarge_current_chunk(W, ctx,
            requested_word_size_plus_gap(requested_word_size, gap)))
  ELSE current_chunk_enlarged(ctx, cur, requested_word_size, gap, <<>>,
         [W |-> W, ok |-> TRUE])
allocate_from_current_chunk(W, ctx, requested_word_size) ==
  allocate_with_gap(W, ctx, current_chunk(W, ctx), requested_word_size,
    alignment_gap_word_size(
      chunk_top(current_chunk(W, ctx), W.chunk[current_chunk(W, ctx)]),
      alignment_words(ctx)))

\* MetaspaceArena::allocate, lines 278-287: the new chunk becomes the current
\* one and the request is allocated from it.  The pointer is not stored in
\* result, which stays empty.
new_chunk_added(wastage, calls, al) ==
  [W |-> al.W, result |-> EmptyBlock, wastage |-> wastage,
   fatal |-> "none", calls |-> calls]

\* an arena that allocates from the new chunk without adding it to _chunks
new_chunk_not_added(ctx, c, requested_word_size, calls, sv) ==
  new_chunk_added(sv.block, calls, chunk_allocate(sv.W, c, requested_word_size))

\* MetaspaceArena::allocate, lines 270-278: sv is the outcome of salvaging
\* the old current chunk
old_chunk_salvaged(ctx, c, requested_word_size, calls, sv) ==
  new_chunk_added(sv.block, calls,
    chunk_allocate([sv.W EXCEPT !.arena_chunks[ctx] = <<c>> \o @], c,
                   requested_word_size))

\* an arena that salvages the old chunk before it knows whether it got a new
\* one
salvaged_before_request(W, ctx, old, requested_word_size, nc) ==
  IF nc.fatal # "none"
  THEN [W |-> W, result |-> EmptyBlock, wastage |-> EmptyBlock,
        fatal |-> nc.fatal, calls |-> <<"allocate_new_chunk">>]
  ELSE IF nc.c = NULL /\ old = NULL
  THEN [W |-> nc.W, result |-> EmptyBlock, wastage |-> EmptyBlock,
        fatal |-> "none", calls |-> <<"allocate_new_chunk">>]
  ELSE IF nc.c = NULL
  THEN [W |-> salvage_chunk(nc.W, ctx, old).W, result |-> EmptyBlock,
        wastage |-> salvage_chunk(nc.W, ctx, old).block,
        fatal |-> "none", calls |-> <<"salvage_chunk", "allocate_new_chunk">>]
  ELSE IF old # NULL
  THEN old_chunk_salvaged(ctx, nc.c, requested_word_size,
         <<"salvage_chunk", "allocate_new_chunk">>,
         salvage_chunk(nc.W, ctx, old))
  ELSE old_chunk_salvaged(ctx, nc.c, requested_word_size,
         <<"allocate_new_chunk">>, [W |-> nc.W, block |-> EmptyBlock])

\* MetaspaceArena::allocate, lines 263-292: nc is the outcome of
\* allocate_new_chunk, old the current chunk so far
new_chunk_requested(W, ctx, old, requested_word_size, nc) ==
  IF nc.fatal # "none"
  THEN [W |-> W, result |-> EmptyBlock, wastage |-> EmptyBlock,
        fatal |-> nc.fatal, calls |-> <<"allocate_new_chunk">>]
  ELSE IF nc.c = NULL
  THEN [W |-> nc.W, result |-> EmptyBlock, wastage |-> EmptyBlock,
        fatal |-> "none", calls |-> <<"allocate_new_chunk">>]
  ELSE IF old # NULL
  THEN old_chunk_salvaged(ctx, nc.c, requested_word_size,
         <<"allocate_new_chunk", "salvage_chunk">>,
         salvage_chunk(nc.W, ctx, old))
  ELSE old_chunk_salvaged(ctx, nc.c, requested_word_size,
         <<"allocate_new_chunk">>, [W |-> nc.W, block |-> EmptyBlock])

\* MetaspaceArena::allocate, lines 257-292.  Yields [W, result, wastage,
\* fatal, calls].
allocate_from_new_chunk(W, ctx, requested_word_size) ==
  new_chunk_requested(W, ctx, current_chunk(W, ctx), requested_word_size,
                      allocate_new_chunk(W, ctx, requested_word_size))

\* MetaspaceArena::allocate, lines 294-299: a non-empty result is counted
arena_allocate_counted(ctx, requested_word_size, calls, a2) ==
  [W |-> IF is_empty(a2.result) THEN a2.W
         ELSE [a2.W EXCEPT !.used_words_counter[ctx] = @ + requested_word_size],
   result |-> a2.result, wastage |-> a2.wastage, fatal |-> a2.fatal,
   calls |-> calls \o a2.calls]

\* MetaspaceArena::allocate, lines 257-313: a1 is the outcome of the attempt
\* on the current chunk
arena_allocate_fallback(ctx, requested_word_size, a1) ==
  IF is_empty(a1.result)
  THEN arena_allocate_counted(ctx, requested_word_size, a1.calls,
         allocate_from_new_chunk(a1.W, ctx, requested_word_size))
  ELSE arena_allocate_counted(ctx, requested_word_size, <<>>,
         [W |-> a1.W, result |-> a1.result, wastage |-> a1.wastage,
          fatal |-> "none", calls |-> a1.calls])

\* MetaspaceArena::allocate(requested_word_size, wastage).
\* Yields [W, result, wastage, fatal, calls].
arena_allocate(W, ctx, requested_word_size) ==
  IF current_chunk(W, ctx) # NULL
  THEN arena_allocate_fallback(ctx, requested_word_size,
         allocate_from_current_chunk(W, ctx, requested_word_size))
  ELSE arena_allocate_fallback(ctx, requested_word_size,
         [W |-> W, result |-> EmptyBlock, wastage |-> EmptyBlock, calls |-> <<>>])

\* MetaspaceArena::usage_numbers
RECURSIVE usage_sum(_, _, _)
usage_sum(chunk, bases, what) ==
  IF bases = <<>> THEN 0
  ELSE (CASE what = "used" -> chunk[Head(bases)].used
          [] what = "committed" -> chunk[Head(bases)].committed
          [] OTHER -> chunk_word_size(chunk[Head(bases)]))
       + usage_sum(chunk, Tail(bases), what)
usage_used(W, ctx) == usage_sum(W.chunk, W.arena_chunks[ctx], "used")
usage_committed(W, ctx) == usage_sum(W.chunk, W.arena_chunks[ctx], "committed")
usage_capacity(W, ctx) == usage_sum(W.chunk, W.arena_chunks[ctx], "capacity")

\* the width of the size_t counters (scaled)
SizeModulus == 256

\* a destructor that stops after the first chunk
return_first_chunk_only(W, ctx, chunks) ==
  IF chunks = <<>> THEN W ELSE return_chunk(W, ctx, Head(chunks))

\* MetaspaceArena::~MetaspaceArena, lines 126-136: the chunks of the
\* sequence go to return_chunk, one after the other
RECURSIVE return_chunks(_, _, _)
return_chunks(W, ctx, chunks) ==
  IF chunks = <<>> THEN W
  ELSE return_chunks(return_chunk(W, ctx, Head(chunks)), ctx, Tail(chunks))

\* SizeCounter::decrement_by: checked against underflow in debug builds,
\* wraps around otherwise
counter_decrement(counter, total) == (counter - total) % SizeModulus
counter_underflows(counter, total, debug) == debug /\ counter < total

\* a destructor after which the arena still lists the chunks it returned
arena_keeps_returned_chunks(W, ctx, total, debug, W1) ==
  [W |-> [W1 EXCEPT !.used_words_counter[ctx] = counter_decrement(@, total)],
   fatal |-> IF counter_underflows(W.used_words_counter[ctx], total, debug)
             THEN "assert" ELSE "none",
   arenas |-> <<ctx>>]

\* MetaspaceArena::~MetaspaceArena, lines 138-146: the used words of the
\* returned chunks leave the counter; W1 is the state after the loop
arena_chunks_returned(W, ctx, total, debug, W1) ==
  [W |-> [W1 EXCEPT !.arena_chunks[ctx] = <<>>,
                    !.used_words_counter[ctx] = counter_decrement(@, total)],
   fatal |-> IF counter_underflows(W.used_words_counter[ctx], total, debug)
             THEN "assert" ELSE "none",
   arenas |-> <<ctx>>]

\* MetaspaceArena::~MetaspaceArena.  Yields [W, fatal, arenas].
arena_destroy(W, ctx, debug) ==
  arena_chunks_returned(W, ctx, usage_used(W, ctx), debug,
                        return_chunks(W, ctx, W.arena_chunks[ctx]))

\* delete _impl: the arenas die in the reverse order of their declaration,
\* _arena_c first; d2 is the outcome of the second destructor
second_arena_destroyed(d1, d2) ==
  [W |-> d2.W, fatal |-> d2.fatal, arenas |-> d1.arenas \o d2.arenas]
first_arena_destroyed(debug, d1) ==
  IF d1.fatal # "none" THEN d1
  ELSE second_arena_destroyed(d1, arena_destroy(d1.W, "nc", debug))
impl_destroy(W, debug) == first_arena_destroyed(debug, arena_destroy(W, "c", debug))

(***************************************************************************)
(* Free-block indexes: BinList32 and BlockTree.  F is the record           *)
(* [binlist_nc, blocktree_nc, blocktree_c], each a set of stored blocks    *)
(* [base, word_size].                                                      *)
(***************************************************************************)
\* add_block: the index stores the block under the size the block reports
index_add_block(index, block) == index \cup {block}

\* remove_block(word_size): the closest fit of at least word_size words
index_remove_block(index, word_size) ==
  LET fits == {b \in index : b.word_size >= word_size} IN
  IF fits = {} THEN [index |-> index, block |-> EmptyBlock]
  ELSE LET b == CHOOSE x \in fits : \A o \in fits :
                  \/ x.word_size < o.word_size
                  \/ (x.word_size = o.word_size /\ x.base <= o.base)
       IN [index |-> index \ {b}, block |-> MetaBlock(b.base, b.word_size)]

(***************************************************************************)
(* ClassLoaderMetaspaceImpl (classLoaderMetaspaceImpl.cpp)                 *)
(***************************************************************************)
\* the remainder of a split goes back to the free blocks when it is this large
remainder_is_kept(remainder) == remainder.word_size > minimum_allocation_words

\* ClassLoaderMetaspaceImpl::deallocate_to_free_blocks(block); ka is the value
\* of the member _klass_alignment
deallocate_to_free_blocks(F, block, ka) ==
  IF block.word_size >= minimum_allocation_words
  THEN IF /\ is_in_class_space(block.base)
          /\ is_aligned(block.base, ka)
          /\ block.word_size >= sizeof_Klass
       THEN [F EXCEPT !.blocktree_c = index_add_block(@, block)]
       ELSE IF block.word_size >= BinListMaxWordSize
            THEN [F EXCEPT !.blocktree_nc = index_add_block(@, block)]
            ELSE [F EXCEPT !.binlist_nc = index_add_block(@, block)]
  ELSE F

\* allocate_from_freeblocks, lines 99-106: split the block found; the head
\* stays in result (split_off_tail), the remainder goes back when kept
split_found_block(F1, found, remainder, word_size, ka) ==
  IF is_empty(found) THEN [F |-> F1, result |-> EmptyBlock]
  ELSE [F |-> IF remainder_is_kept(remainder)
              THEN deallocate_to_free_blocks(F1, remainder, ka) ELSE F1,
        result |-> IF is_empty(remainder) THEN found
                   ELSE MetaBlock(found.base, word_size)]

\* allocate_from_freeblocks, lines 81-97: the class block tree for a class
\* request, else the bin list for small sizes and then the non-class tree
removed_from_class_tree(F, word_size, ka, rc) ==
  split_found_block([F EXCEPT !.blocktree_c = rc.index], rc.block,
                    tail(rc.block, word_size), word_size, ka)
removed_from_nonclass_tree(F, word_size, ka, rt) ==
  split_found_block([F EXCEPT !.blocktree_nc = rt.index], rt.block,
                    tail(rt.block, word_size), word_size, ka)
removed_from_binlist(F, word_size, ka, rb) ==
  IF is_empty(rb.block)
  THEN removed_from_nonclass_tree(F, word_size, ka,
         index_remove_block(F.blocktree_nc, word_size))
  ELSE split_found_block([F EXCEPT !.binlist_nc = rb.index], rb.block,
                         tail(rb.block, word_size), word_size, ka)

\* ClassLoaderMetaspaceImpl::allocate_from_freeblocks(word_size, is_class).
\* Yields [F, result].
allocate_from_freeblocks(F, word_size, is_class, ka) ==
  IF is_class
  THEN removed_from_class_tree(F, word_size, ka,
         index_remove_block(F.blocktree_c, word_size))
  ELSE IF word_size < BinListMaxWordSize
  THEN removed_from_binlist(F, word_size, ka,
         index_remove_block(F.binlist_nc, word_size))
  ELSE removed_from_nonclass_tree(F, word_size, ka,
         index_remove_block(F.blocktree_nc, word_size))

\* the closing assertion of ClassLoaderMetaspaceImpl::allocate (debug builds)
result_assertion_holds(result, word_size, is_class, ka) ==
  /\ is_aligned(result.base, IF is_class THEN ka ELSE AllocationAlignmentWordSize)
  /\ result.word_size = word_size
allocate_epilogue(result, word_size, is_class, ka, debug) ==
  IF debug /\ ~result_assertion_holds(result, word_size, is_class, ka)
  THEN "assert" ELSE "none"

\* ClassLoaderMetaspaceImpl::allocate, lines 154-164: ar is the outcome of
\* the arena's allocate; its wastage goes to the free blocks
allocated_from_arena(F1, W, word_size, is_class, ka, debug, ar) ==
  IF ar.fatal # "none"
  THEN [F |-> F1, W |-> W, result |-> EmptyBlock, fatal |-> ar.fatal,
        from_freeblocks |-> FALSE, arena_result |-> EmptyBlock,
        wastage |-> EmptyBlock, calls |-> ar.calls]
  ELSE [F |-> IF ~is_empty(ar.wastage)
              THEN deallocate_to_free_blocks(F1, ar.wastage, ka) ELSE F1,
        W |-> ar.W, result |-> ar.result,
        fatal |-> allocate_epilogue(ar.result, word_size, is_class, ka, debug),
        from_freeblocks |-> FALSE, arena_result |-> ar.result,
        wastage |-> ar.wastage, calls |-> ar.calls]

\* ClassLoaderMetaspaceImpl::allocate, lines 150-164: fb is the outcome of
\* allocate_from_freeblocks
allocated_from_freeblocks(W, word_size, is_class, ka, debug, fb) ==
  IF ~is_empty(fb.result)
  THEN [F |-> fb.F, W |-> W, result |-> fb.result,
        fatal |-> allocate_epilogue(fb.result, word_size, is_class, ka, debug),
        from_freeblocks |-> TRUE, arena_result |-> EmptyBlock,
        wastage |-> EmptyBlock, calls |-> <<>>]
  ELSE allocated_from_arena(fb.F, W, word_size, is_class, ka, debug,
         arena_allocate(W, CtxOf(is_class), word_size))

\* ClassLoaderMetaspaceImpl::allocate(word_size, is_class).
\* Yields [F, W, result, fatal, from_freeblocks, arena_result, wastage, calls].
clms_allocate(F, W, word_size, is_class, ka, debug) ==
  allocated_from_freeblocks(W, word_size, is_class, ka, debug,
    allocate_from_freeblocks(F, word_size, is_class, ka))

\* ClassLoaderMetaspaceImpl::allocate ends without a return statement: the
\* block the caller receives is indeterminate.  It may happen to be the local
\* result, an empty block, or whatever the return registers hold.
indeterminate_blocks(result) ==
  {result, EmptyBlock, [base |-> 1, word_size |-> 1]}

(***************************************************************************)
(* DlList (dllist.hpp).  D is the record [list, node]: list gives each      *)
(* DlList its _front, _back and _num, node gives each element its _prev    *)
(* and _next.                                                              *)
(***************************************************************************)
\* the elements X x[..] of test_dllist.cpp, and the lists l1 and l2
MaxElements == 4
DlElements == 1..MaxElements
DlLists == {"l1", "l2"}
\* DlList(): _front(nullptr), _back(nullptr), and a counter at 0
EmptyDlList == [front |-> NULL, back |-> NULL, num |-> 0]
NoDlCall == [op |-> "none", list |-> "l1", other |-> "l1", p |-> NULL, ret |-> NULL]

cap_prev(D, p) == [D EXCEPT !.node[p].prev = NULL]
cap_next(D, p) == [D EXCEPT !.node[p].next = NULL]
cap(D, p) == cap_next(cap_prev(D, p), p)
\* DlList::connect(a, b)
connect(D, a, b) == [D EXCEPT !.node[b].prev = a, !.node[a].next = b]
\* DlList::set: the chain becomes the one element p
set(D, l, p) ==
  cap([D EXCEPT !.list[l] = [front |-> p, back |-> p, num |-> 1]], p)
\* DlList::set_chain: the chain becomes p1..p2
set_chain(D, l, p1, p2, num) ==
  cap_next(cap_prev([D EXCEPT !.list[l] = [front |-> p1, back |-> p2, num |-> num]],
                    p1), p2)

\* a list that appends without moving _back
append_single_keeping_back(D, l, p) ==
  IF D.list[l].back = NULL THEN set(D, l, p)
  ELSE [cap_next(connect(D, D.list[l].back, p), p) EXCEPT !.list[l].num = @ + 1]

\* DlList::append_single
append_single(D, l, p) ==
  IF D.list[l].back = NULL THEN set(D, l, p)
  ELSE [cap_next(connect(D, D.list[l].back, p), p)
          EXCEPT !.list[l].back = p, !.list[l].num = @ + 1]

\* DlList::prepend_single
prepend_single(D, l, p) ==
  IF D.list[l].front = NULL THEN set(D, l, p)
  ELSE [cap_prev(connect(D, p, D.list[l].front), p)
          EXCEPT !.list[l].front = p, !.list[l].num = @ + 1]

\* a list that counts an appended chain as one element
append_chain_counted_once(D, l, p1, p2, num) ==
  IF D.list[l].back = NULL THEN set_chain(D, l, p1, p2, num)
  ELSE [cap_next(connect(D, D.list[l].back, p1), p2)
          EXCEPT !.list[l].back = p2, !.list[l].num = @ + 1]

\* DlList::append_chain
append_chain(D, l, p1, p2, num) ==
  IF D.list[l].back = NULL THEN set_chain(D, l, p1, p2, num)
  ELSE [cap_next(connect(D, D.list[l].back, p1), p2)
          EXCEPT !.list[l].back = p2, !.list[l].num = @ + num]

\* DlList::prepend_chain
prepend_chain(D, l, p1, p2, num) ==
  IF D.list[l].front = NULL THEN set_chain(D, l, p1, p2, num)
  ELSE [cap_prev(connect(D, p2, D.list[l].front), p1)
          EXCEPT !.list[l].front = p1, !.list[l].num = @ + num]

\* DlList::reset
reset(D, l) == [D EXCEPT !.list[l] = EmptyDlList]

push_front(D, l, p) == prepend_single(D, l, p)
push_back(D, l, p) == append_single(D, l, p)

\* DlList::add_list_at_front(other), DlList::add_list_at_back(other)
add_list_at_front(D, l, other) ==
  IF D.list[other].num # 0
  THEN reset(prepend_chain(D, l, D.list[other].front, D.list[other].back,
                           D.list[other].num), other)
  ELSE D
add_list_at_back(D, l, other) ==
  IF D.list[other].num # 0
  THEN reset(append_chain(D, l, D.list[other].front, D.list[other].back,
                          D.list[other].num), other)
  ELSE D

\* DlList::remove(p), lines 180-191: p_next and p_prev were read before
unlinked(D, l, p, p_next, p_prev) ==
  [D EXCEPT !.list[l].front = IF p = @ THEN p_next ELSE @,
            !.list[l].back = IF p = @ THEN p_prev ELSE @,
            !.node = [x \in DOMAIN @ |->
                        [prev |-> IF x = p_next THEN p_prev ELSE @[x].prev,
                         next |-> IF x = p_prev THEN p_next ELSE @[x].next]]]
\* DlList::remove(p)
remove(D, l, p) ==
  cap([unlinked(D, l, p, D.node[p].next, D.node[p].prev)
         EXCEPT !.list[l].num = @ - 1], p)

\* DlList::pop_front, DlList::pop_back.  Yield [D, p].
pop_front(D, l) ==
  IF D.list[l].front # NULL
  THEN [D |-> remove(D, l, D.list[l].front), p |-> D.list[l].front]
  ELSE [D |-> D, p |-> NULL]
pop_back(D, l) ==
  IF D.list[l].back # NULL
  THEN [D |-> remove(D, l, D.list[l].back), p |-> D.list[l].back]
  ELSE [D |-> D, p |-> NULL]

\* the elements met from p along next(), at most fuel of them
RECURSIVE walk_from(_, _, _)
walk_from(D, p, fuel) ==
  IF p = NULL \/ fuel = 0 THEN <<>>
  ELSE <<p>> \o walk_from(D, D.node[p].next, fuel - 1)
\* verify_list of test_dllist.cpp: the walk from front() along next()
walk(D, l) == walk_from(D, D.list[l].front, MaxElements + 1)
\* DlList::contains(x)
contains(D, l, x) == \E i \in DOMAIN walk(D, l) : walk(D, l)[i] = x

(***************************************************************************)
(* VMATree (nmt/vmaTree.cpp).  The tree is the set of its nodes, each       *)
(* [addr, state_in, state_out]; the red-black tree of libdict is taken as  *)
(* an ordered map with one node per key.                                   *)
(***************************************************************************)
MaxAddress == 5
VmaAddresses == 1..MaxAddress
NONE_STATE == 0
\* VMAState, as vmastate_text numbers it
VMAState_reserved == 1
VMAState_committed == 2
VMAStates == {VMAState_reserved, VMAState_committed}
\* two MEMFLAGS, mtClass and mtNMT in the tests
VmaFlags == {1, 2}
\* VMAMappingState(f, s).state(), a uint16_t
VMAMappingState(f, s) == (f * 256 + s) % 65536
\* no node: the iterator found nothing
NoVmaNode == [addr |-> 0, state_in |-> NONE_STATE, state_out |-> NONE_STATE]
NoVmaCall == [op |-> "none", from |-> 0, to |-> 0, state |-> NONE_STATE]

\* rb_itor_search_le, rb_itor_search_gt: the node at or before, after A
rb_itor_search_le(t, A) ==
  IF \E n \in t : n.addr <= A
  THEN CHOOSE n \in t : n.addr <= A /\ \A m \in t : m.addr <= A => m.addr <= n.addr
  ELSE NoVmaNode
rb_itor_search_gt(t, A) ==
  IF \E n \in t : n.addr > A
  THEN CHOOSE n \in t : n.addr > A /\ \A m \in t : m.addr > A => m.addr >= n.addr
  ELSE NoVmaNode
\* rb_tree_remove, rb_itor_remove
rb_tree_remove(t, addr) == {n \in t : n.addr # addr}
\* rb_tree_insert and the store to its datum; VMANode::set_state_change
insert_or_update_node(t, addr, state_in, state_out) ==
  rb_tree_remove(t, addr)
    \union {[addr |-> addr, state_in |-> state_in, state_out |-> state_out]}

\* a tree that keeps the node at A whatever its states
A_handled_keeping_node(t, A, state_now, n) ==
  IF n.addr # 0
  THEN IF n.addr = A
       THEN insert_or_update_node(t, A, n.state_in, state_now)
       ELSE IF n.state_out = state_now THEN t
            ELSE insert_or_update_node(t, A, n.state_out, state_now)
  ELSE IF NONE_STATE = state_now THEN t
       ELSE insert_or_update_node(t, A, NONE_STATE, state_now)

\* register_mapping, lines 146-207: the tree after A is handled; n is the
\* node rb_itor_search_le found, sc_A is [state_in, state_now]
A_handled(t, A, state_now, n) ==
  IF n.addr # 0
  THEN IF n.addr = A
       THEN IF n.state_in = state_now
            THEN rb_tree_remove(t, A)
            ELSE insert_or_update_node(t, A, n.state_in, state_now)
       ELSE IF n.state_out = state_now THEN t
            ELSE insert_or_update_node(t, A, n.state_out, state_now)
  ELSE IF NONE_STATE = state_now THEN t
       ELSE insert_or_update_node(t, A, NONE_STATE, state_now)

\* register_mapping, lines 218-238: the loop over the nodes in (A, B],
\* standing on node n.  acc: the tree, sc_B's outgoing state,
\* to_be_deleted, B_needs_insert.
RECURSIVE nodes_up_to_B(_, _, _, _)
nodes_up_to_B(acc, n, B, state_now) ==
  IF n.addr = 0 \/ n.addr > B THEN acc
  ELSE IF n.addr < B
  THEN nodes_up_to_B([acc EXCEPT !.sc_B_out = n.state_out,
                                 !.to_be_deleted = @ \union {n.addr}],
                     rb_itor_search_gt(acc.tree, n.addr), B, state_now)
  ELSE IF state_now = n.state_out
  THEN nodes_up_to_B([acc EXCEPT !.sc_B_out = n.state_out,
                                 !.to_be_deleted = @ \union {B},
                                 !.B_needs_insert = FALSE],
                     rb_itor_search_gt(acc.tree, n.addr), B, state_now)
  ELSE nodes_up_to_B([acc EXCEPT !.sc_B_out = n.state_out,
                                 !.tree = insert_or_update_node(@, B, state_now, n.state_out),
                                 !.B_needs_insert = FALSE],
                     rb_itor_search_gt(acc.tree, n.addr), B, state_now)

\* register_mapping, lines 240-249: insert B if needed, then delete
B_handled(acc, B, state_now) ==
  {n \in (IF acc.B_needs_insert /\ state_now # acc.sc_B_out
          THEN insert_or_update_node(acc.tree, B, state_now, acc.sc_B_out)
          ELSE acc.tree) : n.addr \notin acc.to_be_deleted}

\* VMATree::register_mapping(A, B, state_now)
register_mapping(t, A, B, state_now) ==
  B_handled(
    nodes_up_to_B([tree |-> A_handled(t, A, state_now, rb_itor_search_le(t, A)),
                   sc_B_out |-> rb_itor_search_le(t, A).state_out,
                   to_be_deleted |-> {},
                   B_needs_insert |-> TRUE],
                  rb_itor_search_gt(A_handled(t, A, state_now, rb_itor_search_le(t, A)), A),
                  B, state_now),
    B, state_now)

\* VMATree::is_valid
is_valid(t) ==
  /\ \A n, m \in t : n.addr = m.addr => n = m
  /\ \A n \in t :
       /\ n.addr # 0
       /\ n.state_in = rb_itor_search_le(t, n.addr - 1).state_out
       /\ n.state_in # n.state_out
       /\ rb_itor_search_gt(t, n.addr).addr = 0 => n.state_out = NONE_STATE

(***************************************************************************)
(* VirtualSpaceList::contains, walking the node list without the lock      *)
(* while create_new_node adds a node (virtualSpaceList.cpp)                *)
(***************************************************************************)
\* the nodes a list comes to have
MaxNodes == 3
VsNodes == 1..MaxNodes
\* the _next field of a node before set_next was called on it
Unset == -1
\* the words of a node, and the addresses contains is asked about
node_words == 2
VsAddresses == 0..(node_words * (MaxNodes + 1) + 1)

\* VirtualSpaceNode::contains(p)
node_contains(n, p) == n * node_words <= p /\ p < (n + 1) * node_words

IdleCreator == [pc |-> 0, vsn |-> NULL]
IdleReader == [pc |-> "idle", p |-> 0, vsn |-> NULL, result |-> FALSE,
               before |-> {}, loaded |-> NULL, strayed |-> FALSE]

(***************************************************************************)
(* State                                                                   *)
(***************************************************************************)
VARIABLES
  chunk,                 \* every Metachunk: base -> [level, used, committed, in_use]
  freelist,              \* ChunkManager::_chunks, per context and level
  nodes,                 \* VirtualSpaceList::_first_node and its successors
  salvaged_root_chunks,  \* VirtualSpaceList::_salvaged_root_chunks
  committed_words,       \* CommitLimiter: words committed so far
  commit_limit,          \* CommitLimiter: the cap
  arena_chunks,          \* MetaspaceArena::_chunks of _arena_nc and _arena_c
  used_words_counter,    \* MetaspaceArena::_total_used_words_counter
  free_blocks,           \* _binlist_nc, _blocktree_nc, _blocktree_c
  debug_build,           \* whether ASSERT is defined
  fatal,                 \* "none", or the assert/guarantee that ended the process
  nops,                  \* operations so far
  live,                  \* blocks handed out by the arenas and not deallocated
  last,                  \* the last operation, its inputs and outcome
  merge_log,             \* the merges the last operation made
  peer_arena_chunks,     \* _chunks of the arenas of a second ClassLoaderMetaspace
  peer_free_blocks,      \* the free-block indexes of the second ClassLoaderMetaspace
  destroyed,             \* the ClassLoaderMetaspace instances deleted so far
  thread,                \* each thread's position in expand_and_allocate and its locals
  lock_owner,            \* the thread holding ClassLoaderMetaspace::_lock
  limiter_access,        \* the last access to the commit limit / GC threshold
  freeblocks,            \* a FreeBlocks object: _small_blocks_nc, _tree_nc, _tree_c
  first_node,            \* VirtualSpaceList::_first_node, as the lock-free reader sees it
  node_next,             \* VirtualSpaceNode::_next of every node
  nodes_counter,         \* VirtualSpaceList::_nodes_counter
  creator,               \* the thread inside create_new_node
  reader,                \* the thread inside VirtualSpaceList::contains
  dl_list,               \* two DlList objects: _front, _back, _num
  dl_node,               \* DlList::Node of every element: _prev, _next
  dl_last,               \* the last call on a DlList and what it returned
  vma_tree,              \* the nodes of the VMATree _g_vma_tree
  vma_last               \* the last call on the VMADictionary

\* the node list walked without the lock
walk_vars == <<first_node, node_next, nodes_counter, creator, reader>>
\* the state of the components that are exercised on their own
\* two DlLists and their elements
dl_vars == <<dl_list, dl_node, dl_last>>
\* the NMT mapping dictionary
vma_vars == <<vma_tree, vma_last>>
lib_vars == <<walk_vars, dl_vars, vma_vars>>

\* the state of the allocator
main_vars == <<chunk, freelist, nodes, salvaged_root_chunks, committed_words,
               commit_limit, arena_chunks, used_words_counter, free_blocks,
               debug_build, fatal, nops, live, last, merge_log,
               peer_arena_chunks, peer_free_blocks, destroyed,
               thread, lock_owner, limiter_access, freeblocks>>

vars == <<chunk, freelist, nodes, salvaged_root_chunks, committed_words,
          commit_limit, arena_chunks, used_words_counter, free_blocks,
          debug_build, fatal, nops, live, last, merge_log,
          peer_arena_chunks, peer_free_blocks, destroyed,
          thread, lock_owner, limiter_access, freeblocks, lib_vars>>

\* the second ClassLoaderMetaspace and the lifetimes
peer_vars == <<peer_arena_chunks, peer_free_blocks, destroyed>>
\* the threads inside expand_and_allocate, and the lock
expand_vars == <<thread, lock_owner, limiter_access>>

\* the threads that call expand_and_allocate
Threads == {"t1", "t2"}
NoThread == "no thread"
\* a thread outside expand_and_allocate
IdleThread == [pc |-> "idle", word_size |-> 0, is_class |-> FALSE,
               delta |-> 0, old |-> 0, incremented |-> FALSE,
               can_retry |-> TRUE, res |-> NULL, raises |-> 0,
               pending |-> FALSE, retried |-> FALSE, calls |-> 0]
NoAccess == [thread |-> NoThread, kind |-> "none", lock_held |-> FALSE]

World == [chunk |-> chunk, freelist |-> freelist, nodes |-> nodes,
          salvaged |-> salvaged_root_chunks, committed |-> committed_words,
          limit |-> commit_limit, arena_chunks |-> arena_chunks,
          used_words_counter |-> used_words_counter, merges |-> <<>>,
          returns |-> <<>>]

\* the caps the CommitLimiter is run with (words)
CommitLimits == {2, 4, 64}

NoOp == [op |-> "none", word_size |-> 0, is_class |-> FALSE,
         result |-> EmptyBlock, returned |-> EmptyBlock,
         from_freeblocks |-> FALSE, arena_result |-> EmptyBlock,
         wastage |-> EmptyBlock, calls |-> <<>>, returned_chunks |-> <<>>,
         out |-> <<>>, ok |-> TRUE]

Init ==
  /\ chunk = << >>
  /\ freelist = [ctx \in Contexts |-> [l \in Levels |-> <<>>]]
  \* the class-space list is built around its one reservation
  /\ nodes = [ctx \in Contexts |->
                IF ctx = "c"
                THEN <<[base |-> ClassSpaceBase, word_size |-> ClassSpaceWords,
                        used_words |-> 0]>>
                ELSE <<>>]
  /\ salvaged_root_chunks = [ctx \in Contexts |-> <<>>]
  /\ committed_words = 0
  /\ commit_limit \in CommitLimits
  /\ arena_chunks = [ctx \in Contexts |-> <<>>]
  /\ used_words_counter = [ctx \in Contexts |-> 0]
  /\ free_blocks = [binlist_nc |-> {}, blocktree_nc |-> {}, blocktree_c |-> {}]
  /\ debug_build \in BOOLEAN
  /\ fatal = "none"
  /\ nops = 0
  /\ live = {}
  /\ last = NoOp
  /\ merge_log = <<>>
  /\ peer_arena_chunks = [ctx \in Contexts |-> <<>>]
  /\ peer_free_blocks = [binlist_nc |-> {}, blocktree_nc |-> {}, blocktree_c |-> {}]
  /\ destroyed = {}
  /\ thread = [t \in Threads |-> IdleThread]
  /\ lock_owner = NoThread
  /\ limiter_access = NoAccess
  /\ freeblocks = [binlist_nc |-> {}, blocktree_nc |-> {}, blocktree_c |-> {}]
  /\ first_node = NULL
  /\ node_next = [n \in VsNodes |-> Unset]
  /\ nodes_counter = 0
  /\ creator = IdleCreator
  /\ reader = IdleReader
  /\ dl_list = [l \in DlLists |-> EmptyDlList]
  /\ dl_node = [x \in DlElements |-> [prev |-> NULL, next |-> NULL]]
  /\ dl_last = NoDlCall
  /\ vma_tree = {}
  /\ vma_last = NoVmaCall

\* The sizes callers ask for: small ones, and the sizes around the root chunk
\* size of test_humongous_allocation.cpp.  A class-space request holds at
\* least a Klass.
HumongousSizes == {MAX_CHUNK_WORD_SIZE - 1, MAX_CHUNK_WORD_SIZE,
                   MAX_CHUNK_WORD_SIZE + 1, 4 * MAX_CHUNK_WORD_SIZE,
                   4 * MAX_CHUNK_WORD_SIZE + MAX_CHUNK_WORD_SIZE \div 5}
RequestSizes(is_class) ==
  {n \in (1..MaxSmallRequest) \cup HumongousSizes : is_class => n >= sizeof_Klass}

\* The constructor of ClassLoaderMetaspaceImpl does not initialize
\* _klass_alignment: a read of it yields an indeterminate value.
klass_alignment_field_values == {1, klass_alignment}

\* the effect of one allocate call on the state; r is what clms_allocate yields
AllocateEffect(word_size, is_class, r) ==
  /\ chunk' = r.W.chunk
  /\ freelist' = r.W.freelist
  /\ nodes' = r.W.nodes
  /\ salvaged_root_chunks' = r.W.salvaged
  /\ committed_words' = r.W.committed
  /\ arena_chunks' = r.W.arena_chunks
  /\ used_words_counter' = r.W.used_words_counter
  /\ free_blocks' = r.F
  /\ fatal' = r.fatal
  /\ merge_log' = r.W.merges
  /\ live' = IF r.fatal = "none" /\ ~is_empty(r.arena_result)
             THEN live \cup {[base |-> r.arena_result.base,
                              word_size |-> word_size, is_class |-> is_class]}
             ELSE live
  /\ \E ret \in (IF r.fatal = "none" THEN indeterminate_blocks(r.result)
                 ELSE {EmptyBlock}) :
       last' = [op |-> "allocate", word_size |-> word_size,
                is_class |-> is_class, result |-> r.result,
                returned |-> ret, from_freeblocks |-> r.from_freeblocks,
                arena_result |-> r.arena_result, wastage |-> r.wastage,
                calls |-> r.calls, returned_chunks |-> r.W.returns,
                out |-> last.out, ok |-> TRUE]

\* ClassLoaderMetaspace::allocate(word_size, mdType), under the lock
Allocate(word_size, is_class) ==
  /\ fatal = "none"
  /\ "own" \notin destroyed
  /\ nops < MaxOps
  /\ \E ka \in klass_alignment_field_values :
       AllocateEffect(word_size, is_class,
         clms_allocate(free_blocks, World, word_size, is_class, ka, debug_build))
  /\ nops' = nops + 1
  /\ UNCHANGED <<commit_limit, debug_build, peer_vars, expand_vars, freeblocks, lib_vars>>

\* a deallocate that also takes the block off the arena's used words
DeallocateLoweringUsedWords(b) ==
  /\ fatal = "none"
  /\ "own" \notin destroyed
  /\ nops < MaxOps
  /\ \E ka \in klass_alignment_field_values :
       free_blocks' = deallocate_to_free_blocks(free_blocks,
                         MetaBlock(b.base, b.word_size), ka)
  /\ used_words_counter' =
       [used_words_counter EXCEPT ![CtxOf(b.is_class)] =
          counter_decrement(@, b.word_size)]
  /\ live' = live \ {b}
  /\ last' = [NoOp EXCEPT !.op = "deallocate", !.word_size = b.word_size,
                          !.is_class = b.is_class,
                          !.result = [base |-> b.base, word_size |-> b.word_size]]
  /\ nops' = nops + 1
  /\ merge_log' = <<>>
  /\ UNCHANGED <<chunk, freelist, nodes, salvaged_root_chunks, committed_words,
                 commit_limit, arena_chunks,
                 debug_build, fatal, peer_vars, expand_vars, freeblocks, lib_vars>>

\* ClassLoaderMetaspace::deallocate(ptr, word_size, is_class), under the lock,
\* for a block the caller got from allocate
Deallocate(b) ==
  /\ fatal = "none"
  /\ "own" \notin destroyed
  /\ nops < MaxOps
  /\ \E ka \in klass_alignment_field_values :
       free_blocks' = deallocate_to_free_blocks(free_blocks,
                         MetaBlock(b.base, b.word_size), ka)
  /\ live' = live \ {b}
  /\ last' = [NoOp EXCEPT !.op = "deallocate", !.word_size = b.word_size,
                          !.is_class = b.is_class,
                          !.result = [base |-> b.base, word_size |-> b.word_size]]
  /\ nops' = nops + 1
  /\ merge_log' = <<>>
  /\ UNCHANGED <<chunk, freelist, nodes, salvaged_root_chunks, committed_words,
                 commit_limit, arena_chunks, used_words_counter,
                 debug_build, fatal, peer_vars, expand_vars, freeblocks, lib_vars>>

Next ==
  \/ \E is_class \in BOOLEAN : \E word_size \in RequestSizes(is_class) :
       Allocate(word_size, is_class)
  \/ \E b \in live : Deallocate(b)

Spec == Init /\ [][Next]_vars

(***************************************************************************)
(* Two ClassLoaderMetaspace instances on the same chunk managers           *)
(***************************************************************************)
Instances == {"own", "peer"}
chunks_of(who) == IF who = "own" THEN arena_chunks ELSE peer_arena_chunks

\* the sizes asked for when two instances compete for chunks
SharedRequestSizes(is_class) ==
  {n \in 1..MAX_CHUNK_WORD_SIZE : n <= MaxSmallRequest \/ n = MAX_CHUNK_WORD_SIZE}
    \ (IF is_class THEN 1..(sizeof_Klass - 1) ELSE {})

\* the effect of an allocate call on the second instance
PeerAllocateEffect(word_size, is_class, r) ==
  /\ chunk' = r.W.chunk
  /\ freelist' = r.W.freelist
  /\ nodes' = r.W.nodes
  /\ salvaged_root_chunks' = r.W.salvaged
  /\ committed_words' = r.W.committed
  /\ peer_arena_chunks' = r.W.arena_chunks
  /\ used_words_counter' = r.W.used_words_counter
  /\ peer_free_blocks' = r.F
  /\ fatal' = r.fatal
  /\ merge_log' = r.W.merges
  /\ last' = [op |-> "peer_allocate", word_size |-> word_size,
              is_class |-> is_class, result |-> r.result,
              returned |-> EmptyBlock, from_freeblocks |-> r.from_freeblocks,
              arena_result |-> r.arena_result, wastage |-> r.wastage,
              calls |-> r.calls, returned_chunks |-> r.W.returns,
              out |-> last.out, ok |-> TRUE]

\* ClassLoaderMetaspace::allocate on the second instance
PeerAllocate(word_size, is_class) ==
  /\ fatal = "none"
  /\ "peer" \notin destroyed
  /\ nops < MaxOps
  /\ \E ka \in klass_alignment_field_values :
       PeerAllocateEffect(word_size, is_class,
         clms_allocate(peer_free_blocks,
                       [World EXCEPT !.arena_chunks = peer_arena_chunks],
                       word_size, is_class, ka, debug_build))
  /\ nops' = nops + 1
  /\ UNCHANGED <<commit_limit, debug_build, arena_chunks, free_blocks, live,
                 destroyed, expand_vars, freeblocks, lib_vars>>

\* the effect of deleting an instance; d is what impl_destroy yields
DestroyEffect(who, d) ==
  /\ chunk' = d.W.chunk
  /\ freelist' = d.W.freelist
  /\ used_words_counter' = d.W.used_words_counter
  /\ fatal' = d.fatal
  /\ merge_log' = d.W.merges
  /\ IF who = "own"
     THEN /\ arena_chunks' = d.W.arena_chunks
          /\ free_blocks' = [binlist_nc |-> {}, blocktree_nc |-> {}, blocktree_c |-> {}]
          /\ live' = {}
          /\ UNCHANGED <<peer_arena_chunks, peer_free_blocks>>
     ELSE /\ peer_arena_chunks' = d.W.arena_chunks
          /\ peer_free_blocks' = [binlist_nc |-> {}, blocktree_nc |-> {}, blocktree_c |-> {}]
          /\ UNCHANGED <<arena_chunks, free_blocks, live>>
  /\ last' = [NoOp EXCEPT !.op = "destroy", !.calls = d.arenas,
                          !.returned_chunks = d.W.returns]

\* ClassLoaderMetaspace::~ClassLoaderMetaspace, under the lock
Destroy(who) ==
  /\ fatal = "none"
  /\ who \notin destroyed
  /\ nops < MaxOps
  /\ DestroyEffect(who, impl_destroy([World EXCEPT !.arena_chunks = chunks_of(who)],
                                     debug_build))
  /\ destroyed' = destroyed \cup {who}
  /\ nops' = nops + 1
  /\ UNCHANGED <<nodes, salvaged_root_chunks, committed_words, commit_limit,
                 debug_build, expand_vars, freeblocks, lib_vars>>

\* ClassLoaderMetaspace::ClassLoaderMetaspace for the next class loader
Create(who) ==
  /\ fatal = "none"
  /\ who \in destroyed
  /\ nops < MaxOps
  /\ destroyed' = destroyed \ {who}
  /\ nops' = nops + 1
  /\ last' = [NoOp EXCEPT !.op = "create"]
  /\ merge_log' = <<>>
  /\ UNCHANGED <<chunk, freelist, nodes, salvaged_root_chunks, committed_words,
                 commit_limit, arena_chunks, used_words_counter, free_blocks,
                 debug_build, fatal, live, peer_arena_chunks, peer_free_blocks,
                 expand_vars, freeblocks, lib_vars>>

NextShared ==
  \/ \E is_class \in BOOLEAN : \E word_size \in SharedRequestSizes(is_class) :
       Allocate(word_size, is_class)
  \/ \E b \in live : Deallocate(b)
  \/ \E is_class \in BOOLEAN : \E word_size \in SharedRequestSizes(is_class) :
       PeerAllocate(word_size, is_class)
  \/ \E who \in Instances : Destroy(who)
  \/ \E who \in Instances : Create(who)

SpecShared == Init /\ [][NextShared]_vars

(***************************************************************************)
(* expand_and_allocate, called by several threads                          *)
(* (classLoaderMetaspace.cpp, MetaspaceGC)                                 *)
(***************************************************************************)
\* the calls of expand_and_allocate each thread makes
MaxCalls == 1
\* MaxMetaspaceSize: the GC threshold never passes it (words, scaled)
MaxMetaspaceSize == 8

\* the sizes expand_and_allocate is called with
ExpandRequestSizes(is_class) ==
  {n \in {1, MAX_CHUNK_WORD_SIZE \div 2, MAX_CHUNK_WORD_SIZE} :
     is_class => n >= sizeof_Klass}

\* MetaspaceGC::delta_capacity_until_GC: the request in whole commit granules
delta_capacity_until_GC(words) == align_up(words, commit_granule_words)

\* a loop that goes on although the threshold cannot be raised
retry_ignoring_can_retry(incremented, res, can_retry) ==
  ~incremented /\ res = NULL

\* a loop that goes on after the thread has raised the threshold
retry_ignoring_incremented(incremented, res, can_retry) ==
  res = NULL /\ can_retry

\* while (!incremented && res == nullptr && can_retry)
retry_needed(incremented, res, can_retry) ==
  ~incremented /\ res = NULL /\ can_retry

\* expand_and_allocate is entered: delta_bytes is computed, the locals are set
ExpandEnter(t, word_size, is_class) ==
  /\ fatal = "none"
  /\ thread[t].pc = "idle"
  /\ thread[t].calls < MaxCalls
  /\ thread' = [thread EXCEPT ![t] =
                 [IdleThread EXCEPT !.pc = "inc_read", !.word_size = word_size,
                                    !.is_class = is_class,
                                    !.delta = delta_capacity_until_GC(word_size),
                                    !.calls = thread[t].calls + 1]]
  /\ UNCHANGED <<chunk, freelist, nodes, salvaged_root_chunks, committed_words,
                 commit_limit, arena_chunks, used_words_counter, free_blocks,
                 debug_build, fatal, nops, live, last, merge_log, peer_vars,
                 freeblocks, lib_vars,
                 lock_owner, limiter_access>>

\* MetaspaceGC::inc_capacity_until_GC, first half: the threshold is read and
\* the new value compared with MaxMetaspaceSize
IncRead(t) ==
  /\ fatal = "none"
  /\ thread[t].pc = "inc_read"
  /\ thread' = [thread EXCEPT ![t] =
       IF commit_limit + thread[t].delta > MaxMetaspaceSize
       THEN [@ EXCEPT !.pc = "lock", !.old = commit_limit, !.can_retry = FALSE,
                      !.incremented = FALSE, !.pending = TRUE]
       ELSE [@ EXCEPT !.pc = "inc_cas", !.old = commit_limit, !.can_retry = TRUE]]
  /\ limiter_access' = [thread |-> t, kind |-> "threshold_read",
                        lock_held |-> lock_owner = t]
  /\ UNCHANGED <<chunk, freelist, nodes, salvaged_root_chunks, committed_words,
                 commit_limit, arena_chunks, used_words_counter, free_blocks,
                 debug_build, fatal, nops, live, last, merge_log, peer_vars,
                 freeblocks, lib_vars,
                 lock_owner>>

\* MetaspaceGC::inc_capacity_until_GC, second half: the compare-and-swap
IncCas(t) ==
  /\ fatal = "none"
  /\ thread[t].pc = "inc_cas"
  /\ IF commit_limit = thread[t].old
     THEN /\ commit_limit' = thread[t].old + thread[t].delta
          /\ thread' = [thread EXCEPT ![t] =
                          [@ EXCEPT !.pc = "lock", !.incremented = TRUE,
                                    !.raises = MIN2(@ + 1, 2), !.pending = TRUE]]
     ELSE /\ commit_limit' = commit_limit
          /\ thread' = [thread EXCEPT ![t] =
                          [@ EXCEPT !.pc = "lock", !.incremented = FALSE,
                                    !.pending = TRUE]]
  /\ limiter_access' = [thread |-> t, kind |-> "threshold_cas",
                        lock_held |-> lock_owner = t]
  /\ UNCHANGED <<chunk, freelist, nodes, salvaged_root_chunks, committed_words,
                 arena_chunks, used_words_counter, free_blocks,
                 debug_build, fatal, nops, live, last, merge_log, peer_vars,
                 freeblocks, lib_vars,
                 lock_owner>>

\* an allocate that goes on without the lock
LockNotTaken(t) ==
  /\ fatal = "none"
  /\ thread[t].pc = "lock"
  /\ thread' = [thread EXCEPT ![t].pc = "allocate"]
  /\ UNCHANGED <<chunk, freelist, nodes, salvaged_root_chunks, committed_words,
                 commit_limit, arena_chunks, used_words_counter, free_blocks,
                 debug_build, fatal, nops, live, last, merge_log, peer_vars,
                 freeblocks, lib_vars,
                 lock_owner, limiter_access>>

\* ClassLoaderMetaspace::allocate: MutexLocker fcl(lock(), ...)
Lock(t) ==
  /\ fatal = "none"
  /\ thread[t].pc = "lock"
  /\ lock_owner = NoThread
  /\ lock_owner' = t
  /\ thread' = [thread EXCEPT ![t].pc = "allocate"]
  /\ UNCHANGED <<chunk, freelist, nodes, salvaged_root_chunks, committed_words,
                 commit_limit, arena_chunks, used_words_counter, free_blocks,
                 debug_build, fatal, nops, live, last, merge_log, peer_vars,
                 freeblocks, lib_vars,
                 limiter_access>>

\* the thread's locals after res = allocate(word_size, mdType) and the test
\* of the loop condition
allocate_retried(th, res) ==
  IF retry_needed(th.incremented, res, th.can_retry)
  THEN [th EXCEPT !.pc = "inc_read", !.res = res, !.pending = FALSE,
                  !.retried = TRUE]
  ELSE [th EXCEPT !.pc = "done", !.res = res, !.pending = FALSE]

\* ClassLoaderMetaspace::allocate inside the loop: the body under the lock,
\* the release of the lock, and the loop condition
ExpandAllocate(t) ==
  /\ fatal = "none"
  /\ thread[t].pc = "allocate"
  /\ \E ka \in klass_alignment_field_values :
       AllocateEffect(thread[t].word_size, thread[t].is_class,
         clms_allocate(free_blocks, World, thread[t].word_size,
                       thread[t].is_class, ka, debug_build))
  /\ thread' = [thread EXCEPT ![t] = allocate_retried(@, last'.returned.base)]
  /\ limiter_access' = IF committed_words' # committed_words
                       THEN [thread |-> t, kind |-> "commit",
                             lock_held |-> lock_owner = t]
                       ELSE limiter_access
  /\ lock_owner' = IF lock_owner = t THEN NoThread ELSE lock_owner
  /\ UNCHANGED <<commit_limit, debug_build, nops, peer_vars, freeblocks, lib_vars>>

\* expand_and_allocate returns res
ExpandReturn(t) ==
  /\ fatal = "none"
  /\ thread[t].pc = "done"
  /\ thread' = [thread EXCEPT ![t] = [IdleThread EXCEPT !.calls = thread[t].calls]]
  /\ UNCHANGED <<chunk, freelist, nodes, salvaged_root_chunks, committed_words,
                 commit_limit, arena_chunks, used_words_counter, free_blocks,
                 debug_build, fatal, nops, live, last, merge_log, peer_vars,
                 freeblocks, lib_vars,
                 lock_owner, limiter_access>>

\* the steps of a thread inside expand_and_allocate, but for the body of
\* allocate
ThreadStep(t) ==
  IncRead(t) \/ IncCas(t) \/ Lock(t) \/ ExpandReturn(t)

NextExpand ==
  \/ \E t \in Threads : \E is_class \in BOOLEAN :
       \E word_size \in ExpandRequestSizes(is_class) :
         ExpandEnter(t, word_size, is_class)
  \/ \E t \in Threads : IncRead(t)
  \/ \E t \in Threads : IncCas(t)
  \/ \E t \in Threads : Lock(t)
  \/ \E t \in Threads : ExpandAllocate(t)
  \/ \E t \in Threads : ExpandReturn(t)

\* the GC threshold starts at or below MaxMetaspaceSize
InitExpand == Init /\ commit_limit <= MaxMetaspaceSize

\* ExpandAllocate(t) is enabled exactly when the thread stands at the body of
\* allocate and the process has not ended
allocate_enabled(t) == thread[t].pc = "allocate" /\ fatal = "none"

\* A thread inside the call is scheduled again and again, the lock it waits
\* for is released by a holder that is itself scheduled, and the body of
\* allocate, which has no loop that waits, is run to its end: weak fairness
\* of ThreadStep(t) and of ExpandAllocate(t), the latter written out with
\* allocate_enabled(t) for ENABLED <<ExpandAllocate(t)>>_vars.
SpecExpand ==
  /\ InitExpand
  /\ [][NextExpand]_vars
  /\ \A t \in Threads :
       /\ WF_vars(ThreadStep(t))
       /\ \/ []<>(~allocate_enabled(t))
          \/ []<><<ExpandAllocate(t)>>_vars

(***************************************************************************)
(* FreeBlocks (freeBlocks.cpp), used next to a ClassLoaderMetaspace        *)
(***************************************************************************)
\* FreeBlocks::add_block(block).  F holds _small_blocks_nc, _tree_nc and
\* _tree_c under the names of the indexes of ClassLoaderMetaspaceImpl; sizes
\* below MaxSmallBlocksWordSize (the bin list's MaxWordSize) go to the bin list.
FreeBlocks_add_block(F, block) ==
  IF /\ is_in_class_space(block.base)
     /\ is_aligned(block.base, AllocationAlignmentWordSize)
     /\ block.word_size >= sizeof_Klass
  THEN [F EXCEPT !.blocktree_c = index_add_block(@, block)]
  ELSE IF block.word_size >= BinListMaxWordSize
       THEN [F EXCEPT !.blocktree_nc = index_add_block(@, block)]
       ELSE [F EXCEPT !.binlist_nc = index_add_block(@, block)]

\* the ranges a caller hands to FreeBlocks::add_block: none is smaller than
\* minimum_allocation_words
AddedBlockBases == {ClassSpaceBase, NonClassBase, NonClassBase + 1}
AddedBlockSizes == {minimum_allocation_words, sizeof_Klass, BinListMaxWordSize}

\* a caller builds MetaBlock(p, word_size) and passes it to
\* FreeBlocks::add_block
FreeBlocksAddBlock(p, word_size) ==
  /\ fatal = "none"
  /\ nops < MaxOps
  /\ freeblocks' = FreeBlocks_add_block(freeblocks, MetaBlock(p, word_size))
  /\ last' = [NoOp EXCEPT !.op = "add_block", !.word_size = word_size,
                          !.result = [base |-> p, word_size |-> word_size]]
  /\ nops' = nops + 1
  /\ merge_log' = <<>>
  /\ UNCHANGED <<chunk, freelist, nodes, salvaged_root_chunks, committed_words,
                 commit_limit, arena_chunks, used_words_counter, free_blocks,
                 debug_build, fatal, live, peer_vars, expand_vars, lib_vars>>

\* FreeBlocks::remove_block(word_size, for_class).  The body tests is_class,
\* a name that is not the parameter: what it reads is not known here, and the
\* operator takes it as a value of its own.  Yields [F, result].
FreeBlocks_removed(F, index_name, r) ==
  [F |-> [F EXCEPT ![index_name] = r.index], result |-> r.block]
\* lines 72-75: on a miss the small-block index is asked again
FreeBlocks_small_blocks_asked(F, word_size, r) ==
  IF is_empty(r.block)
  THEN FreeBlocks_removed(F, "binlist_nc",
                          index_remove_block(F.binlist_nc, word_size))
  ELSE FreeBlocks_removed(F, "binlist_nc", r)
FreeBlocks_remove_block(F, word_size, is_class) ==
  IF is_class
  THEN FreeBlocks_removed(F, "blocktree_c",
                          index_remove_block(F.blocktree_c, word_size))
  ELSE FreeBlocks_small_blocks_asked(F, word_size,
         IF word_size < BinListMaxWordSize
         THEN index_remove_block(F.binlist_nc, word_size)
         ELSE [index |-> F.binlist_nc, block |-> EmptyBlock])

\* the values the name is_class may stand for in remove_block
is_class_values(for_class) == {for_class, TRUE, FALSE}

\* the effect of a call of remove_block; r is what it yields
FreeBlocksRemoveEffect(word_size, for_class, is_class, r) ==
  /\ fatal' = IF debug_build /\ is_class /\ word_size < sizeof_Klass
              THEN "assert" ELSE "none"
  /\ freeblocks' = r.F
  /\ last' = [NoOp EXCEPT !.op = "remove_block", !.word_size = word_size,
                          !.is_class = for_class, !.result = r.result]

\* a caller asks FreeBlocks::remove_block for word_size words
FreeBlocksRemoveBlock(word_size, for_class) ==
  /\ fatal = "none"
  /\ nops < MaxOps
  /\ \E is_class \in is_class_values(for_class) :
       FreeBlocksRemoveEffect(word_size, for_class, is_class,
         FreeBlocks_remove_block(freeblocks, word_size, is_class))
  /\ nops' = nops + 1
  /\ merge_log' = <<>>
  /\ UNCHANGED <<chunk, freelist, nodes, salvaged_root_chunks, committed_words,
                 commit_limit, arena_chunks, used_words_counter, free_blocks,
                 debug_build, live, peer_vars, expand_vars, lib_vars>>

NextFreeBlocks ==
  \/ \E is_class \in BOOLEAN : \E word_size \in RequestSizes(is_class) :
       Allocate(word_size, is_class)
  \/ \E b \in live : Deallocate(b)
  \/ \E p \in AddedBlockBases : \E word_size \in AddedBlockSizes :
       FreeBlocksAddBlock(p, word_size)
  \/ \E for_class \in BOOLEAN :
       \E word_size \in {n \in AddedBlockSizes : for_class => n >= sizeof_Klass} :
         FreeBlocksRemoveBlock(word_size, for_class)

SpecFreeBlocks == Init /\ [][NextFreeBlocks]_vars

(***************************************************************************)
(* VirtualSpaceList, asked for root chunks next to an allocating           *)
(* ClassLoaderMetaspace                                                    *)
(***************************************************************************)
\* the numbers of adjacent root chunks asked for
RootChunkCounts == {2, 3}

\* the effect of a root chunk request on the lists' state
VslEffect(W) ==
  /\ chunk' = W.chunk
  /\ nodes' = W.nodes
  /\ salvaged_root_chunks' = W.salvaged
  /\ nops' = nops + 1
  /\ merge_log' = <<>>
  /\ UNCHANGED <<freelist, committed_words, commit_limit, arena_chunks,
                 used_words_counter, free_blocks, debug_build, fatal, live,
                 peer_vars, expand_vars, freeblocks, lib_vars>>

\* the caller keeps the root chunk it got in its list out
VslRootChunkAllocated(is_class, r) ==
  /\ VslEffect(r.W)
  /\ last' = [NoOp EXCEPT !.op = "allocate_root_chunk", !.is_class = is_class,
                          !.result = [base |-> r.c, word_size |-> 0],
                          !.out = IF r.c # NULL THEN Append(last.out, r.c)
                                  ELSE last.out,
                          !.ok = r.c # NULL]

\* VirtualSpaceList::allocate_root_chunk on the list of that context
VslAllocateRootChunk(is_class) ==
  /\ fatal = "none"
  /\ nops < MaxOps
  /\ VslRootChunkAllocated(is_class, allocate_root_chunk(World, CtxOf(is_class)))

VslRootChunksAllocated(is_class, num, r) ==
  /\ VslEffect(r.W)
  /\ last' = [NoOp EXCEPT !.op = "allocate_multiple_root_chunks",
                          !.is_class = is_class, !.word_size = num,
                          !.out = r.out, !.ok = r.ok]

\* VirtualSpaceList::allocate_multiple_root_chunks(num, out); out is the list
\* the caller keeps from call to call
VslAllocateMultipleRootChunks(is_class, num) ==
  /\ fatal = "none"
  /\ nops < MaxOps
  /\ VslRootChunksAllocated(is_class, num,
       allocate_multiple_root_chunks(World, CtxOf(is_class), num, last.out))

NextVsl ==
  \/ \E is_class \in BOOLEAN : \E word_size \in SharedRequestSizes(is_class) :
       Allocate(word_size, is_class)
  \/ \E is_class \in BOOLEAN : VslAllocateRootChunk(is_class)
  \/ \E is_class \in BOOLEAN : \E num \in RootChunkCounts :
       VslAllocateMultipleRootChunks(is_class, num)

SpecVsl == Init /\ [][NextVsl]_vars

(***************************************************************************)
(* FreeChunkListVector::search_adjacent_root_chunks (freeChunkList.cpp),   *)
(* asked next to allocating and dying ClassLoaderMetaspaces                *)
(***************************************************************************)
\* the numbers of adjacent root chunks searched for
AdjacentCounts == {1, 2, 3}

\* the node of the list of ctx that holds the address b
in_node(n, b) == n.base <= b /\ b < n.base + n.word_size
in_same_node(W, ctx, a, b) ==
  \E i \in DOMAIN W.nodes[ctx] : in_node(W.nodes[ctx][i], a) /\ in_node(W.nodes[ctx][i], b)

\* Metachunk::next_in_vs: the chunk that follows in the memory of the node
next_in_vs(W, ctx, b) ==
  IF /\ b + chunk_word_size(W.chunk[b]) \in DOMAIN W.chunk
     /\ in_same_node(W, ctx, b, b + chunk_word_size(W.chunk[b]))
  THEN b + chunk_word_size(W.chunk[b]) ELSE NULL

\* Metachunk::is_free
is_free(c) == ~c.in_use

\* the loop of the finder: f runs over the followers of the candidate, len
\* counts those that are free root chunks, and the candidate is taken when
\* the count reaches num
RECURSIVE followers_counted(_, _, _, _, _)
followers_counted(W, ctx, f, len, num) ==
  /\ f # NULL
  /\ is_root_chunk(W.chunk[f])
  /\ is_free(W.chunk[f])
  /\ \/ len + 1 = num
     \/ followers_counted(W, ctx, next_in_vs(W, ctx, f), len + 1, num)

finder(W, ctx, candidate, num) ==
  followers_counted(W, ctx, next_in_vs(W, ctx, candidate), 0, num)

\* DlList::for_each_until: the first chunk of the list the finder accepts
RECURSIVE for_each_until(_, _, _, _, _)
for_each_until(W, ctx, list, i, num) ==
  IF i > Len(list) THEN NULL
  ELSE IF finder(W, ctx, list[i], num) THEN list[i]
       ELSE for_each_until(W, ctx, list, i + 1, num)

\* FreeChunkListVector::search_adjacent_root_chunks
search_adjacent_root_chunks(W, ctx, num) ==
  IF Len(W.freelist[ctx][ROOT_CHUNK_LEVEL]) < num THEN NULL
  ELSE for_each_until(W, ctx, W.freelist[ctx][ROOT_CHUNK_LEVEL], 1, num)

\* search_adjacent_root_chunks(num) on the chunk manager of that context;
\* the search changes no list
SearchAdjacentRootChunks(is_class, num) ==
  /\ fatal = "none"
  /\ nops < MaxOps
  /\ nops' = nops + 1
  /\ merge_log' = <<>>
  /\ last' = [NoOp EXCEPT !.op = "search_adjacent_root_chunks",
                          !.is_class = is_class, !.word_size = num,
                          !.result = [base |-> search_adjacent_root_chunks(
                                                 World, CtxOf(is_class), num),
                                      word_size |-> 0]]
  /\ UNCHANGED <<chunk, freelist, nodes, salvaged_root_chunks, committed_words,
                 commit_limit, arena_chunks, used_words_counter, free_blocks,
                 debug_build, fatal, live, peer_vars, expand_vars, freeblocks, lib_vars>>

NextAdjacent ==
  \/ \E is_class \in BOOLEAN : \E word_size \in SharedRequestSizes(is_class) :
       Allocate(word_size, is_class)
  \/ \E is_class \in BOOLEAN : \E word_size \in SharedRequestSizes(is_class) :
       PeerAllocate(word_size, is_class)
  \/ \E who \in Instances : Destroy(who)
  \/ \E who \in Instances : Create(who)
  \/ \E is_class \in BOOLEAN : \E num \in AdjacentCounts :
       SearchAdjacentRootChunks(is_class, num)

SpecAdjacent == Init /\ [][NextAdjacent]_vars

(***************************************************************************)
(* MetaBlock, constructed and split (metablock.hpp, test_metablock.cpp)    *)
(***************************************************************************)
\* the bases and sizes blocks are constructed with
BlockBases == {ClassSpaceBase, NonClassBase, NonClassBase + 2, NonClassBase + 5}
BlockSizes == 2..4

\* MetaBlock bl(p, s), split at n words into the head MetaBlock(p, n) and
\* bl.tail(n), as allocate_from_freeblocks splits a found block; last keeps
\* the block in result, its head in arena_result, its tail in returned, and
\* the plain numbers p and n in wastage
MetaBlockSplit(p, s, n) ==
  /\ fatal = "none"
  /\ nops < MaxOps
  /\ nops' = nops + 1
  /\ merge_log' = <<>>
  /\ last' = [NoOp EXCEPT !.op = "MetaBlock", !.word_size = s,
                          !.result = MetaBlock(p, s),
                          !.arena_result = MetaBlock(p, n),
                          !.returned = tail(MetaBlock(p, s), n),
                          !.wastage = [base |-> p, word_size |-> n]]
  /\ UNCHANGED <<chunk, freelist, nodes, salvaged_root_chunks, committed_words,
                 commit_limit, arena_chunks, used_words_counter, free_blocks,
                 debug_build, fatal, live, peer_vars, expand_vars, freeblocks, lib_vars>>

NextMetaBlock ==
  \E p \in BlockBases : \E s \in BlockSizes : \E n \in 1..(s - 1) :
    MetaBlockSplit(p, s, n)

SpecMetaBlock == Init /\ [][NextMetaBlock]_vars

(***************************************************************************)
(* create_new_node and contains, statement by statement                    *)
(***************************************************************************)
\* the nodes of the list, from _first_node along next(), at most fuel of them
RECURSIVE nodes_from(_, _)
nodes_from(n, fuel) ==
  IF n = NULL \/ n = Unset \/ fuel = 0 THEN <<>>
  ELSE <<n>> \o nodes_from(node_next[n], fuel - 1)
nodes_in_list == {nodes_from(first_node, MaxNodes)[i] :
                    i \in DOMAIN nodes_from(first_node, MaxNodes)}

\* the state that stays as it is while the node list is walked
beside_walk == <<main_vars, dl_vars, vma_vars>>

\* a create_new_node that publishes the node before it links it
store_before_set_next == <<"release_store", "set_next">>

\* create_new_node, lines 102-103: vsn->set_next(_first_node), then
\* Atomic::release_store(&_first_node, vsn)
create_new_node_order == <<"set_next", "release_store">>

\* create_new_node, line 99, under the Metaspace_lock: the node is created
CreateNewNodeEnter ==
  /\ creator.pc = 0
  /\ nodes_counter < MaxNodes
  /\ creator' = [pc |-> 1, vsn |-> nodes_counter + 1]
  /\ UNCHANGED <<first_node, node_next, nodes_counter, reader, beside_walk>>

\* create_new_node, lines 102-104: the next statement of the creator; the
\* counter is raised after the second
CreateNewNodeStep ==
  /\ creator.pc \in {1, 2}
  /\ IF create_new_node_order[creator.pc] = "set_next"
     THEN /\ node_next' = [node_next EXCEPT ![creator.vsn] = first_node]
          /\ UNCHANGED first_node
     ELSE /\ first_node' = creator.vsn
          /\ UNCHANGED node_next
  /\ IF creator.pc = 2
     THEN creator' = IdleCreator /\ nodes_counter' = nodes_counter + 1
     ELSE creator' = [creator EXCEPT !.pc = 2] /\ UNCHANGED nodes_counter
  /\ UNCHANGED <<reader, beside_walk>>

\* a thread calls contains(p), without the lock; before keeps the nodes the
\* list holds at this moment
ContainsEnter(p) ==
  /\ reader.pc = "idle"
  /\ reader' = [IdleReader EXCEPT !.pc = "load", !.p = p, !.before = nodes_in_list]
  /\ UNCHANGED <<first_node, node_next, nodes_counter, creator, beside_walk>>

\* contains, line 250: vsn = Atomic::load_acquire(&_first_node)
ContainsLoad ==
  /\ reader.pc = "load"
  /\ reader' = [reader EXCEPT !.pc = "walk", !.vsn = first_node,
                              !.loaded = first_node]
  /\ UNCHANGED <<first_node, node_next, nodes_counter, creator, beside_walk>>

\* contains, lines 251-257: one turn of the loop.  A next field that was
\* never set holds anything: null, or the address of any node.
ContainsWalk ==
  /\ reader.pc = "walk"
  /\ IF reader.vsn = NULL
     THEN reader' = [reader EXCEPT !.pc = "done", !.result = FALSE]
     ELSE IF node_contains(reader.vsn, reader.p)
     THEN reader' = [reader EXCEPT !.pc = "done", !.result = TRUE]
     ELSE IF node_next[reader.vsn] = Unset
     THEN \E g \in VsNodes \cup {NULL} :
            reader' = [reader EXCEPT !.vsn = g, !.strayed = TRUE]
     ELSE reader' = [reader EXCEPT !.vsn = node_next[reader.vsn]]
  /\ UNCHANGED <<first_node, node_next, nodes_counter, creator, beside_walk>>

\* contains returns
ContainsReturn ==
  /\ reader.pc = "done"
  /\ reader' = IdleReader
  /\ UNCHANGED <<first_node, node_next, nodes_counter, creator, beside_walk>>

NextWalk ==
  \/ CreateNewNodeEnter
  \/ CreateNewNodeStep
  \/ \E p \in VsAddresses : ContainsEnter(p)
  \/ ContainsLoad
  \/ ContainsWalk
  \/ ContainsReturn

SpecWalk == Init /\ [][NextWalk]_vars

(***************************************************************************)
(* Calls on the two DlLists, as test_dllist.cpp makes them                 *)
(***************************************************************************)
Dl == [list |-> dl_list, node |-> dl_node]
beside_dl == <<main_vars, walk_vars, vma_vars>>
\* assert_isolated_node, and the caller's duty: p is in no list
in_no_list(p) == \A l \in DlLists : ~contains(Dl, l, p)

DlCalled(D, op, l, other, p, ret) ==
  /\ dl_list' = D.list
  /\ dl_node' = D.node
  /\ dl_last' = [op |-> op, list |-> l, other |-> other, p |-> p, ret |-> ret]
  /\ UNCHANGED beside_dl

DlPushFront(l, p) ==
  /\ in_no_list(p)
  /\ DlCalled(push_front(Dl, l, p), "push_front", l, l, p, NULL)

DlPushBack(l, p) ==
  /\ in_no_list(p)
  /\ DlCalled(push_back(Dl, l, p), "push_back", l, l, p, NULL)

DlPopFront(l) ==
  DlCalled(pop_front(Dl, l).D, "pop_front", l, l, NULL, pop_front(Dl, l).p)

DlPopBack(l) ==
  DlCalled(pop_back(Dl, l).D, "pop_back", l, l, NULL, pop_back(Dl, l).p)

DlRemove(l, p) ==
  /\ contains(Dl, l, p)
  /\ DlCalled(remove(Dl, l, p), "remove", l, l, p, NULL)

DlAddListAtFront(l, other) ==
  /\ other # l
  /\ DlCalled(add_list_at_front(Dl, l, other), "add_list_at_front", l, other, NULL, NULL)

DlAddListAtBack(l, other) ==
  /\ other # l
  /\ DlCalled(add_list_at_back(Dl, l, other), "add_list_at_back", l, other, NULL, NULL)

NextDlList ==
  \/ \E l \in DlLists, p \in DlElements : DlPushFront(l, p)
  \/ \E l \in DlLists, p \in DlElements : DlPushBack(l, p)
  \/ \E l \in DlLists : DlPopFront(l)
  \/ \E l \in DlLists : DlPopBack(l)
  \/ \E l \in DlLists, p \in DlElements : DlRemove(l, p)
  \/ \E l \in DlLists, other \in DlLists : DlAddListAtFront(l, other)
  \/ \E l \in DlLists, other \in DlLists : DlAddListAtBack(l, other)

SpecDlList == Init /\ [][NextDlList]_vars

(***************************************************************************)
(* Calls on the VMADictionary                                              *)
(***************************************************************************)
beside_vma == <<main_vars, walk_vars, dl_vars>>

\* VMADictionary::register_create_mapping(from, to, f, s)
RegisterCreateMapping(from, to, f, s) ==
  /\ from < to
  /\ vma_tree' = register_mapping(vma_tree, from, to, VMAMappingState(f, s))
  /\ vma_last' = [op |-> "create", from |-> from, to |-> to,
                  state |-> VMAMappingState(f, s)]
  /\ UNCHANGED beside_vma

\* VMADictionary::register_release_mapping(from, to)
RegisterReleaseMapping(from, to) ==
  /\ from < to
  /\ vma_tree' = register_mapping(vma_tree, from, to, NONE_STATE)
  /\ vma_last' = [op |-> "release", from |-> from, to |-> to, state |-> NONE_STATE]
  /\ UNCHANGED beside_vma

NextVma ==
  \/ \E from \in VmaAddresses, to \in VmaAddresses, f \in VmaFlags, s \in VMAStates :
       RegisterCreateMapping(from, to, f, s)
  \/ \E from \in VmaAddresses, to \in VmaAddresses : RegisterReleaseMapping(from, to)

SpecVma == Init /\ [][NextVma]_vars

(***************************************************************************)
(* Properties                                                              *)
(***************************************************************************)
\* the step just taken was an allocate call
AllocateStep == nops' = nops + 1 /\ last'.op = "allocate"

\* the calls an operation made
Called(l, name) == \E i \in DOMAIN l.calls : l.calls[i] = name

\* the alignment a block of the given kind must have
required_alignment(is_class) ==
  IF is_class THEN klass_alignment ELSE AllocationAlignmentWordSize

\* the words [base, base + word_size) of a block handed out
block_range(b) == b.base .. (b.base + b.word_size - 1)

\* the limiter has room to commit a whole root chunk
CommitHeadroom == committed_words + MAX_CHUNK_WORD_SIZE <= commit_limit

\* C1: between operations, the used words summed over the chunks of an
\* arena equal what the arena has added to its used-words counter.
C1_Conservation ==
  \A ctx \in Contexts : usage_used(World, ctx) = used_words_counter[ctx]

\* C2: the address ranges of two live non-empty result blocks of one
\* arena never overlap.
C2_NoOverlap ==
  \A a, b \in live :
    (a # b /\ a.is_class = b.is_class) => block_range(a) \cap block_range(b) = {}

\* two different blocks of one arena are live
C2_TwoLiveBlocks ==
  \E a, b \in live : a # b /\ a.is_class = b.is_class

\* C3: every non-empty block returned by ClassLoaderMetaspaceImpl::allocate
\* is aligned to the Klass alignment for a class request and to the minimal
\* allocation alignment otherwise.
C3_ReturnedBlockAligned ==
  (last.op = "allocate" /\ fatal = "none" /\ ~is_empty(last.returned))
    => is_aligned(last.returned.base, required_alignment(last.is_class))

\* C4: a fresh arena asked for K words, K above the chunk size of the first
\* growth step and at most the root chunk size, acquires exactly one chunk of
\* the smallest level size that holds K and returns a non-empty block at the
\* start of that chunk.
C4_FreshArenaLargeRequest ==
  [][(/\ AllocateStep
      /\ arena_chunks[CtxOf(last'.is_class)] = <<>>
      /\ last'.word_size > word_size_for_level(get_level_at_step(0))
      /\ last'.word_size <= MAX_CHUNK_WORD_SIZE
      /\ CommitHeadroom)
     => (/\ Len(arena_chunks'[CtxOf(last'.is_class)]) = 1
         /\ chunk'[Head(arena_chunks'[CtxOf(last'.is_class)])].level
              = level_fitting_word_size(last'.word_size)
         /\ ~is_empty(last'.arena_result)
         /\ last'.arena_result.base = Head(arena_chunks'[CtxOf(last'.is_class)]))]_vars

\* C5: deallocating a block of N words and then allocating N words of the
\* same kind returns a non-empty block served from the free-block indexes;
\* no arena grows and no chunk is requested from the ChunkManager.
C5_ExactFitReuse ==
  [][(/\ AllocateStep
      /\ last.op = "deallocate"
      /\ last'.word_size = last.word_size
      /\ last'.is_class = last.is_class)
     => (/\ last'.from_freeblocks
         /\ ~is_empty(last'.result)
         /\ arena_chunks' = arena_chunks
         /\ ~Called(last', "allocate_new_chunk"))]_vars

\* the words held by the free-block indexes
free_block_sizes(F) ==
  {b.word_size : b \in F.binlist_nc \cup F.blocktree_nc \cup F.blocktree_c}

\* C6: a request for N words served from a free block of M > N words gets
\* exactly N words, and the remainder of M - N words goes back to the
\* free-block indexes iff M - N >= minimum_allocation_words.
C6_SplitCorrectness ==
  [][(/\ AllocateStep
      /\ last.op = "deallocate"
      /\ last'.word_size < last.word_size
      /\ last'.is_class = last.is_class)
     => (/\ last'.from_freeblocks
         /\ last'.result.word_size = last'.word_size
         /\ (last.word_size - last'.word_size >= minimum_allocation_words
               <=> (last.word_size - last'.word_size)
                     \in free_block_sizes(free_blocks')))]_vars

\* C7: with the CommitLimiter at its cap, a request that needs more
\* committed memory returns an empty block and leaves nothing behind: no
\* chunk leaves the ChunkManager, no root chunk or node leaves the
\* VirtualSpaceList, no words are committed.
C7_NoPartialEffectAtCap ==
  [][(/\ AllocateStep
      /\ committed_words = commit_limit
      /\ fatal' # "guarantee"
      /\ committed_words' = committed_words
      /\ is_empty(last'.arena_result)
      /\ arena_chunks' = arena_chunks)
     => (/\ freelist' = freelist
         /\ nodes' = nodes
         /\ salvaged_root_chunks' = salvaged_root_chunks
         /\ chunk' = chunk)]_vars

\* C8: when no chunk can be had (commit limit or virtual space exhausted),
\* allocate reports an empty block; no assertion fails and the process goes on.
C8_FailureIsEmptyBlock ==
  [][(/\ AllocateStep
      /\ last'.word_size <= MAX_CHUNK_WORD_SIZE
      /\ Called(last', "allocate_new_chunk")
      /\ arena_chunks' = arena_chunks)
     => (fatal' = "none" /\ is_empty(last'.returned))]_vars

\* C9: a fresh arena serves s words for the sizes around the root chunk
\* size, and then reports used = s, committed = s rounded up to the commit
\* granule, capacity = s rounded up to whole root chunks.
C9_HumongousAllocation ==
  [][(/\ AllocateStep
      /\ ~last'.is_class
      /\ arena_chunks["nc"] = <<>>
      /\ last'.word_size \in HumongousSizes
      /\ committed_words + last'.word_size + commit_granule_words <= commit_limit)
     => (/\ fatal' = "none"
         /\ ~is_empty(last'.arena_result)
         /\ usage_used(World', "nc") = last'.word_size
         /\ usage_committed(World', "nc")
              = align_up(last'.word_size, commit_granule_words)
         /\ usage_capacity(World', "nc")
              = align_up(last'.word_size, MAX_CHUNK_WORD_SIZE))]_vars

usage_numbers(W, ctx) ==
  <<usage_used(W, ctx), usage_committed(W, ctx), usage_capacity(W, ctx)>>

\* C11: once s words were allocated, every step of a deallocate(p, s) /
\* allocate(s) cycle leaves the arena's usage numbers as they were.
C11_CyclesKeepUsageNumbers ==
  [][(\/ (nops' = nops + 1 /\ last'.op = "deallocate")
      \/ (/\ AllocateStep
          /\ last.op = "deallocate"
          /\ last'.word_size = last.word_size
          /\ last'.is_class = last.is_class))
     => usage_numbers(World', CtxOf(last'.is_class))
          = usage_numbers(World, CtxOf(last'.is_class))]_vars

\* how often the chunk at b occurs in a list
occurs_in(list, b) == Cardinality({i \in DOMAIN list : list[i] = b})
RECURSIVE SumOver(_, _)
SumOver(f, S) ==
  IF S = {} THEN 0
  ELSE LET x == CHOOSE y \in S : TRUE IN f[x] + SumOver(f, S \ {x})

\* the number of lists the chunk at b is a member of, counted with
\* multiplicity: the free lists, the pools of salvaged root chunks and the
\* chunk sequences of all arenas
memberships(b) ==
  SumOver([k \in Contexts \X Levels |-> occurs_in(freelist[k[1]][k[2]], b)],
          Contexts \X Levels)
  + SumOver([ctx \in Contexts |->
               occurs_in(salvaged_root_chunks[ctx], b)
               + occurs_in(arena_chunks[ctx], b)
               + occurs_in(peer_arena_chunks[ctx], b)], Contexts)

free_chunk_covers(W, b) ==
  \E fb \in DOMAIN W.chunk :
    /\ fb <= b /\ b < fb + chunk_word_size(W.chunk[fb])
    /\ ~W.chunk[fb].in_use
    /\ W.chunk[fb].used = 0
    /\ \E ctx \in Contexts : occurs_in(W.freelist[ctx][W.chunk[fb].level], fb) = 1

\* the chunks of the arenas a delete has destroyed, in the destructors' order
chunks_of_destroyed(chunks, arenas) ==
  IF Len(arenas) = 2 THEN chunks[arenas[1]] \o chunks[arenas[2]]
  ELSE chunks[arenas[1]]

\* C17: destroying an arena passes every chunk of its sequence to
\* return_chunk exactly once, whatever their number; afterwards each of them
\* is free and in the chunk manager's free lists.
C17_DestructorReturnsEveryChunk ==
  [][(nops' = nops + 1 /\ last'.op = "destroy")
     => \A who \in destroyed' \ destroyed :
          /\ last'.returned_chunks = chunks_of_destroyed(chunks_of(who), last'.calls)
          /\ \A i \in DOMAIN last'.returned_chunks :
               free_chunk_covers(World', last'.returned_chunks[i])]_vars

\* an arena with at least two chunks was destroyed
C17_ArenaWithChunksDestroyed ==
  /\ last.op = "destroy"
  /\ Len(last.returned_chunks) >= 2
  /\ \A i \in DOMAIN last.returned_chunks :
       free_chunk_covers(World, last.returned_chunks[i])

\* C13: every call of expand_and_allocate terminates: a thread inside the
\* call reaches the return (or the process has ended on a failed assert or
\* guarantee); the loop cannot iterate forever.
C13_ExpandAndAllocateTerminates ==
  \A t \in Threads :
    (thread[t].pc \notin {"idle", "done"})
      ~> (thread[t].pc = "done" \/ fatal # "none")

\* a call that went round the loop more than once has returned
C13_CallReturnedAfterRetry ==
  \E t \in Threads : thread[t].pc = "done" /\ thread[t].retried

\* C14: within one call of expand_and_allocate the thread raises the
\* threshold at most once; every attempt to raise it, a lost race included,
\* is followed by a retried allocate before the thread attempts again or
\* returns; and the thread attempts again only when it has not raised the
\* threshold, the threshold can still be raised and the retried allocate
\* returned null.
C14_AtMostOneRaisePerCall ==
  [][\A t \in Threads :
       /\ thread'[t].raises <= 1
       /\ thread'[t].pc \in {"idle", "inc_read", "done"} => ~thread'[t].pending
       /\ (thread[t].pc = "allocate" /\ thread'[t].pc = "inc_read")
            => /\ ~thread[t].incremented
               /\ thread[t].can_retry
               /\ thread'[t].res = NULL]_vars

\* a call that lost the race for the threshold, retried the allocate,
\* went round again and then raised the threshold itself
C14_RaisedAfterLostRace ==
  \E t \in Threads :
    thread[t].pc = "done" /\ thread[t].retried /\ thread[t].raises = 1

\* C15 as stated: every read and update of the commit limit / GC threshold,
\* by an arena commit or by the threshold expansion, is made by a thread
\* that holds the allocator lock.
C15_LimiterAccessUnderLock ==
  limiter_access.kind # "none" => limiter_access.lock_held

\* C15 amended: an arena commit reads and updates the commit limit while the
\* committing thread holds the allocator lock; the threshold expansion of
\* expand_and_allocate reads and raises the threshold without the lock (the
\* raise is a compare-and-swap, and the lock is taken only afterwards, inside
\* allocate).
C15_CommitUnderLockRaiseWithout ==
  /\ limiter_access.kind = "commit" => limiter_access.lock_held
  /\ limiter_access.kind \in {"threshold_read", "threshold_cas"}
       => ~limiter_access.lock_held

\* an arena commit was made inside expand_and_allocate after the threshold
\* was raised while another thread held the lock
C15_CommitAfterRaise ==
  /\ limiter_access.kind = "commit"
  /\ \E t \in Threads : thread[t].raises = 1

\* C16: ClassLoaderMetaspaceImpl::deallocate changes only the free-block
\* indexes: the chunk sequences of both arenas, every chunk's level, used and
\* committed words, the chunk manager's lists and the used-words counters are
\* after the call what they were before it.
C16_DeallocateTouchesOnlyFreeBlocks ==
  [][(nops' = nops + 1 /\ last'.op = "deallocate")
       => /\ arena_chunks' = arena_chunks
          /\ chunk' = chunk
          /\ used_words_counter' = used_words_counter
          /\ freelist' = freelist
          /\ committed_words' = committed_words]_vars

\* a block was deallocated while the arenas hold chunks with used words
C16_BlockDeallocated ==
  /\ last.op = "deallocate"
  /\ last.word_size >= 1
  /\ \E ctx \in Contexts :
       arena_chunks[ctx] # <<>> /\ used_words_counter[ctx] > 0

held_by_an_arena(b) ==
  \E who \in Instances : \E ctx \in Contexts : occurs_in(chunks_of(who)[ctx], b) > 0
in_a_free_list(b) ==
  \E ctx \in Contexts : \E l \in Levels : occurs_in(freelist[ctx][l], b) > 0

\* C19: in every reachable state each chunk is either free or in use and
\* never both (it is marked in use exactly when an arena holds it, and then
\* no free list holds it), its used words are at most its committed words
\* and these at most its word size, and every chunk in a free list of a
\* ChunkManager is free and has no used words.
C19_ChunkStateInvariant ==
  \A b \in DOMAIN chunk :
    /\ chunk[b].in_use <=> held_by_an_arena(b)
    /\ chunk[b].in_use => ~in_a_free_list(b)
    /\ chunk[b].used <= chunk[b].committed
    /\ chunk[b].committed <= chunk_word_size(chunk[b])
    /\ in_a_free_list(b) => ~chunk[b].in_use /\ chunk[b].used = 0

\* a chunk with used words is held by one instance while a committed chunk
\* that was in use before waits in a free list
C19_UsedAndFreeChunks ==
  /\ \E b \in DOMAIN chunk : chunk[b].in_use /\ chunk[b].used > 0
  /\ \E b \in DOMAIN chunk : in_a_free_list(b) /\ chunk[b].committed > 0
  /\ last.op = "destroy"

\* C20: no block smaller than minimum_allocation_words is ever stored in a
\* free-block index, whichever path inserts it: deallocate, the arena's
\* alignment wastage, a salvaged chunk remainder, the remainder of a split,
\* or FreeBlocks::add_block.
C20_NoBlockBelowMinimumStored ==
  \A size \in free_block_sizes(free_blocks) \cup free_block_sizes(freeblocks) :
    size >= minimum_allocation_words

\* the index holds a block that starts at p
stored_in(index, p) == \E b \in index : b.base = p

\* the block of n words at p is fit for the class-space index
fit_for_class_index(p, n) ==
  /\ is_in_class_space(p)
  /\ is_aligned(p, klass_alignment)
  /\ n >= sizeof_Klass

\* the step from F to G has stored the block of n words at p where the
\* routing rule sends it, and has touched no other index
routed_by_rule(F, G, p, n) ==
  IF fit_for_class_index(p, n)
  THEN /\ stored_in(G.blocktree_c, p)
       /\ G.blocktree_nc = F.blocktree_nc /\ G.binlist_nc = F.binlist_nc
  ELSE IF n < BinListMaxWordSize
       THEN /\ stored_in(G.binlist_nc, p)
            /\ G.blocktree_nc = F.blocktree_nc /\ G.blocktree_c = F.blocktree_c
       ELSE /\ stored_in(G.blocktree_nc, p)
            /\ G.binlist_nc = F.binlist_nc /\ G.blocktree_c = F.blocktree_c

\* C21: a block added to the free-block dictionary (by FreeBlocks::add_block
\* or by deallocate) is stored in the class-space index iff it lies in the
\* class space, its base is aligned to the Klass alignment and it holds at
\* least a Klass; any other block goes to the small-block index when it is
\* below the size cutoff and to the large non-class index otherwise.  Hence
\* every block of the class-space index is usable for a class allocation.
C21_RoutedToTheRightIndex ==
  [][/\ (nops' = nops + 1 /\ last'.op = "add_block")
          => routed_by_rule(freeblocks, freeblocks', last'.result.base,
                            last'.result.word_size)
     /\ (nops' = nops + 1 /\ last'.op = "deallocate")
          => routed_by_rule(free_blocks, free_blocks', last'.result.base,
                            last'.result.word_size)
     /\ \A b \in free_blocks'.blocktree_c \cup freeblocks'.blocktree_c :
          is_in_class_space(b.base) /\ is_aligned(b.base, klass_alignment)]_vars

\* C22: remove_block(word_size, for_class) returns an empty block or a block
\* of at least word_size words taken from the routed index, and a non-class
\* block that was added and not yet removed is found by a later non-class
\* request of the same size (here: by the request that follows the add).
C22_RemoveFindsWhatWasAdded ==
  [][(nops' = nops + 1 /\ last'.op = "remove_block" /\ fatal' = "none")
       => /\ \/ is_empty(last'.result)
             \/ last'.result.word_size >= last'.word_size
          /\ (/\ last.op = "add_block"
              /\ ~last'.is_class
              /\ ~is_in_class_space(last.result.base)
              /\ last.result.word_size = last'.word_size)
               => ~is_empty(last'.result)]_vars

\* the place of the first call of that name among the calls of an operation
\* (0 when the operation made no such call)
first_call(l, name) ==
  IF Called(l, name)
  THEN CHOOSE i \in DOMAIN l.calls :
         l.calls[i] = name /\ \A j \in 1..(i - 1) : l.calls[j] # name
  ELSE 0

\* the arena of the step's request stood on a current chunk before the step
had_current_chunk == arena_chunks[CtxOf(last'.is_class)] # <<>>

\* C23 as stated: when MetaspaceArena::allocate retires the current chunk,
\* the chunk's committed remainder is salvaged first, and only then is a new
\* chunk requested from the ChunkManager.
C23_SalvageBeforeNewChunk ==
  [][(AllocateStep /\ had_current_chunk /\ Called(last', "allocate_new_chunk"))
       => /\ Called(last', "salvage_chunk")
          /\ first_call(last', "salvage_chunk")
               < first_call(last', "allocate_new_chunk")]_vars

\* C23 amended: when MetaspaceArena::allocate gives up on the current chunk
\* it requests the new chunk from the ChunkManager first; the old chunk's
\* committed remainder is salvaged only after a new chunk was obtained (and
\* before the new chunk becomes the current one); when no new chunk is
\* obtained nothing is salvaged and the arena keeps its chunks as they were.
C23_NewChunkBeforeSalvage ==
  [][AllocateStep
       => /\ Called(last', "salvage_chunk")
               => /\ had_current_chunk
                  /\ Called(last', "allocate_new_chunk")
                  /\ first_call(last', "allocate_new_chunk")
                       < first_call(last', "salvage_chunk")
                  /\ Len(arena_chunks'[CtxOf(last'.is_class)])
                       = Len(arena_chunks[CtxOf(last'.is_class)]) + 1
          /\ (/\ Called(last', "allocate_new_chunk")
              /\ arena_chunks' = arena_chunks)
               => /\ ~Called(last', "salvage_chunk")
                  /\ used_words_counter' = used_words_counter]_vars

\* an allocate retired a current chunk with a committed remainder: the
\* remainder was salvaged and a new chunk stands in front of the old one
C23_ChunkRetiredWithRemainder ==
  /\ last.op = "allocate"
  /\ Called(last, "salvage_chunk")
  /\ ~is_empty(last.wastage)
  /\ Len(arena_chunks[CtxOf(last.is_class)]) >= 2

\* the step just taken was that request to a VirtualSpaceList
VslStep(name) == nops' = nops + 1 /\ last'.op = name
\* the list the step's request went to
vsl_ctx == CtxOf(last'.is_class)
\* the list built around one ReservedSpace (constructor, lines 58-74)
fixed_list(ctx) == ctx = "c"
first_node_free_words(ctx) ==
  IF nodes[ctx] = <<>> THEN 0 ELSE node_free_words(Head(nodes[ctx]))
\* the step left the list of ctx and the caller's list as they were
list_untouched(ctx) ==
  /\ nodes'[ctx] = nodes[ctx]
  /\ salvaged_root_chunks'[ctx] = salvaged_root_chunks[ctx]
  /\ chunk' = chunk
  /\ last'.out = last.out

\* C24: on a non-expandable VirtualSpaceList, allocate_root_chunk returns
\* null and allocate_multiple_root_chunks returns false once the one backing
\* node has less free address space than requested; then no node is created,
\* node count and reserved words are unchanged and the caller's output list
\* is left untouched.
C24_FixedListFailsWhenExhausted ==
  [][/\ (/\ VslStep("allocate_root_chunk")
         /\ fixed_list(vsl_ctx)
         /\ first_node_free_words(vsl_ctx) < MAX_CHUNK_WORD_SIZE)
          => last'.result.base = NULL /\ list_untouched(vsl_ctx)
     /\ (/\ VslStep("allocate_multiple_root_chunks")
         /\ fixed_list(vsl_ctx)
         /\ first_node_free_words(vsl_ctx) < last'.word_size * MAX_CHUNK_WORD_SIZE)
          => ~last'.ok /\ list_untouched(vsl_ctx)]_vars

\* the class-space list was asked for adjacent root chunks it cannot give,
\* by a caller whose list already held chunks
C24_FixedListRefused ==
  /\ last.op = "allocate_multiple_root_chunks"
  /\ last.is_class
  /\ ~last.ok
  /\ last.out # <<>>

\* the chunks a successful request appended to the caller's list
appended_chunk(i) == last'.out[Len(last.out) + i]
\* the first node of the list before the step, now the second
old_first_node(ctx) == nodes'[ctx][2]

\* C25: whenever allocate_multiple_root_chunks(num, out) returns true it has
\* appended exactly num root chunks to out, all carved from the same node,
\* each starting where the previous one ends; if a new node had to be
\* created, every remaining root chunk of the old first node was moved to
\* the pool of salvaged root chunks.
C25_AdjacentRootChunks ==
  [][(VslStep("allocate_multiple_root_chunks") /\ last'.ok)
       => /\ Len(last'.out) = Len(last.out) + last'.word_size
          /\ SubSeq(last'.out, 1, Len(last.out)) = last.out
          /\ \A i \in 1..last'.word_size :
               /\ appended_chunk(i)
                    = appended_chunk(1) + (i - 1) * MAX_CHUNK_WORD_SIZE
               /\ appended_chunk(i) \in DOMAIN chunk'
               /\ is_root_chunk(chunk'[appended_chunk(i)])
               /\ appended_chunk(i) >= Head(nodes'[vsl_ctx]).base
               /\ appended_chunk(i) + MAX_CHUNK_WORD_SIZE
                    <= Head(nodes'[vsl_ctx]).base + Head(nodes'[vsl_ctx]).word_size
          /\ (Len(nodes'[vsl_ctx]) > Len(nodes[vsl_ctx]) /\ nodes[vsl_ctx] # <<>>)
               => /\ node_free_words(old_first_node(vsl_ctx)) = 0
                  /\ Len(salvaged_root_chunks'[vsl_ctx])
                       = Len(salvaged_root_chunks[vsl_ctx])
                         + first_node_free_words(vsl_ctx) \div MAX_CHUNK_WORD_SIZE
                  /\ \A k \in 1..(first_node_free_words(vsl_ctx) \div MAX_CHUNK_WORD_SIZE) :
                       salvaged_root_chunks'[vsl_ctx][Len(salvaged_root_chunks[vsl_ctx]) + k]
                         = Head(nodes[vsl_ctx]).base + Head(nodes[vsl_ctx]).used_words
                           + (k - 1) * MAX_CHUNK_WORD_SIZE]_vars

\* adjacent root chunks came from a new node after the rest of the old first
\* node went to the pool
C25_NewNodeAfterSalvage ==
  /\ last.op = "allocate_multiple_root_chunks"
  /\ last.ok
  /\ Len(nodes["nc"]) >= 2
  /\ salvaged_root_chunks["nc"] # <<>>

\* C26: allocate_root_chunk returns a chunk from the pool of salvaged root
\* chunks whenever the pool is not empty; it carves from the current node
\* only when the pool is empty, and creates a new node only when the pool is
\* empty, the current node is exhausted or absent, and the list is expandable.
C26_PoolThenNodeThenNewNode ==
  [][VslStep("allocate_root_chunk")
       => /\ salvaged_root_chunks[vsl_ctx] # <<>>
               => /\ last'.result.base = Head(salvaged_root_chunks[vsl_ctx])
                  /\ salvaged_root_chunks'[vsl_ctx] = Tail(salvaged_root_chunks[vsl_ctx])
                  /\ nodes' = nodes
          /\ nodes'[vsl_ctx] # nodes[vsl_ctx]
               => salvaged_root_chunks[vsl_ctx] = <<>>
          /\ Len(nodes'[vsl_ctx]) > Len(nodes[vsl_ctx])
               => /\ salvaged_root_chunks[vsl_ctx] = <<>>
                  /\ first_node_free_words(vsl_ctx) < MAX_CHUNK_WORD_SIZE
                  /\ ~fixed_list(vsl_ctx)]_vars

\* a root chunk was handed out from the pool of salvaged root chunks
C26_RootChunkFromPool ==
  /\ last.op = "allocate_root_chunk"
  /\ last.result.base # NULL
  /\ \E i \in DOMAIN nodes["nc"] :
       /\ i >= 2
       /\ last.result.base >= nodes["nc"][i].base
       /\ last.result.base < nodes["nc"][i].base + nodes["nc"][i].word_size

\* the requests for which an arena standing on the chunk c would try to
\* enlarge it: more words than the chunk has free
EnlargementRequests(c) == {n \in 1..(2 * MAX_CHUNK_WORD_SIZE) : free_words(c) < n}

\* the cases in which attempt_enlarge_current_chunk must refuse
must_refuse(ctx, b, c, n) ==
  \/ ~enlarge_chunks_in_place
  \/ c.level = ROOT_CHUNK_LEVEL
  \/ c.used + n > MAX_CHUNK_WORD_SIZE
  \/ 2 * chunk_word_size(c) < c.used + n
  \/ ~is_aligned(b, 2 * chunk_word_size(c))
  \/ get_level_at_step(Len(arena_chunks[ctx])) > c.level

\* what attempt_enlarge_current_chunk(n) would do in this state; e is its
\* outcome
enlarged_by_one_level_or_not_at_all(ctx, b, c, n, e) ==
  /\ must_refuse(ctx, b, c, n) => ~e.ok
  /\ ~e.ok => e.W = World
  /\ e.ok => /\ e.W.chunk[b].level = c.level - 1
             /\ e.W.chunk[b].used = c.used
             /\ e.W.chunk[b].in_use
             /\ free_words(e.W.chunk[b]) >= n
             /\ e.W.arena_chunks = arena_chunks

committed_chunks_first(list) ==
  \A i, j \in DOMAIN list :
    (i < j /\ chunk[list[i]].committed = 0) => chunk[list[j]].committed = 0

\* C28: in every per-level free list all chunks have the level of the list,
\* and no chunk with committed words > 0 comes after a chunk with committed
\* words = 0, after any sequence of adds and removes.
C28_FreeListsOrdered ==
  \A ctx \in Contexts : \A l \in DOMAIN freelist[ctx] :
    /\ \A i \in DOMAIN freelist[ctx][l] : chunk[freelist[ctx][l][i]].level = l
    /\ committed_chunks_first(freelist[ctx][l])

\* a committed chunk that has just been returned stands in front of an
\* uncommitted chunk of its list
C28_CommittedBeforeUncommitted ==
  \E ctx \in Contexts : \E l \in DOMAIN freelist[ctx] :
    /\ Len(freelist[ctx][l]) >= 2
    /\ chunk[freelist[ctx][l][1]].committed > 0
    /\ chunk[freelist[ctx][l][Len(freelist[ctx][l])]].committed = 0
    /\ \E i \in DOMAIN last.returned_chunks :
         last.returned_chunks[i] = freelist[ctx][l][1]

\* the levels from..to whose free list in ctx holds a chunk with at least n
\* committed words
levels_with_committed(ctx, from, to, n) ==
  {l \in from..to : \E i \in DOMAIN freelist[ctx][l] :
                      chunk[freelist[ctx][l][i]].committed >= n}

least_level(ls) == CHOOSE l \in ls : \A m \in ls : l <= m

\* what search_chunk_ascending(level, max_level, n) would do in this state;
\* s is its outcome
found_ascending(ctx, level, max_level, n, s) ==
  IF levels_with_committed(ctx, level, max_level, n) = {}
  THEN s.c = NULL /\ s.W = World
  ELSE /\ s.c # NULL
       /\ chunk[s.c].level = least_level(levels_with_committed(ctx, level, max_level, n))
       /\ chunk[s.c].committed >= n
       /\ \E i \in DOMAIN freelist[ctx][chunk[s.c].level] :
            freelist[ctx][chunk[s.c].level][i] = s.c
       /\ s.W = [World EXCEPT !.freelist[ctx][chunk[s.c].level] = list_remove(@, s.c)]

\* C29: search_chunk_ascending(level, max_level, n) returns, and removes
\* from its list, a chunk whose level lies in [level, max_level] and whose
\* committed words are >= n whenever such a chunk exists in those lists,
\* trying the levels in order from level; otherwise it returns null and no
\* list is changed.
C29_AscendingSearchFindsCommitted ==
  \A ctx \in Contexts : \A level \in Levels : \A max_level \in level..HIGHEST_CHUNK_LEVEL :
    \A n \in 0..word_size_for_level(max_level) :
      found_ascending(ctx, level, max_level, n,
                      search_chunk_ascending(World, ctx, level, max_level, n))

\* after chunks were returned, a list holds a sufficiently committed chunk
\* behind a less committed one, and the search from a lower level number
\* walks to it
C29_FoundBehindLessCommitted ==
  /\ last.op = "destroy"
  /\ \E ctx \in Contexts : \E l \in Levels : \E n \in 1..word_size_for_level(l) :
       /\ Len(freelist[ctx][l]) >= 2
       /\ chunk[freelist[ctx][l][1]].committed < n
       /\ search_chunk_ascending(World, ctx, LOWEST_CHUNK_LEVEL, l, n).c
            \in {freelist[ctx][l][i] : i \in 2..Len(freelist[ctx][l])}

\* the chunk at b and the chunks behind it in address order form a run of
\* num adjacent free root chunks of one node
adjacent_free_root_chunks(ctx, b, num) ==
  \A i \in 0..(num - 1) :
    /\ b + i * MAX_CHUNK_WORD_SIZE \in DOMAIN chunk
    /\ chunk[b + i * MAX_CHUNK_WORD_SIZE].level = ROOT_CHUNK_LEVEL
    /\ ~chunk[b + i * MAX_CHUNK_WORD_SIZE].in_use
    /\ \E k \in DOMAIN nodes[ctx] :
         /\ nodes[ctx][k].base <= b
         /\ b + (i + 1) * MAX_CHUNK_WORD_SIZE <= nodes[ctx][k].base + nodes[ctx][k].word_size

in_root_list(ctx, b) ==
  \E i \in DOMAIN freelist[ctx][ROOT_CHUNK_LEVEL] : freelist[ctx][ROOT_CHUNK_LEVEL][i] = b

\* C30: search_adjacent_root_chunks(num) returns a free root chunk c such
\* that c and the chunks following it in address order form a run of num
\* adjacent free root chunks, whenever the root-level free list contains
\* such a run, and null otherwise; it never returns a chunk whose run
\* contains a chunk that is not free or not a root chunk.
C30_AdjacentRootChunksFound ==
  last.op = "search_adjacent_root_chunks" =>
    IF \E b \in DOMAIN chunk :
         /\ in_root_list(CtxOf(last.is_class), b)
         /\ adjacent_free_root_chunks(CtxOf(last.is_class), b, last.word_size)
    THEN /\ last.result.base # NULL
         /\ in_root_list(CtxOf(last.is_class), last.result.base)
         /\ adjacent_free_root_chunks(CtxOf(last.is_class), last.result.base,
                                      last.word_size)
    ELSE last.result.base = NULL

\* C32: MetaBlock(p, s) reports base() = p and word_size() = s, a
\* default-constructed MetaBlock is empty, and splitting a block of s words
\* at n words (0 < n < s) yields a head (p, n) and a tail (p + n, s - n) that
\* are adjacent, do not overlap and together cover exactly [p, p + s).
C32_MetaBlockKeepsBaseAndSize ==
  /\ is_empty(EmptyBlock)
  /\ last.op = "MetaBlock" =>
       /\ last.result.base = last.wastage.base
       /\ last.result.word_size = last.word_size
       /\ last.arena_result = [base |-> last.wastage.base,
                               word_size |-> last.wastage.word_size]
       /\ last.returned = [base |-> last.wastage.base + last.wastage.word_size,
                           word_size |-> last.word_size - last.wastage.word_size]

\* the chunks of the arena the step's request went to are as they were:
\* the same sequence, each chunk with its level, used and committed words
arena_as_before ==
  /\ arena_chunks'[CtxOf(last'.is_class)] = arena_chunks[CtxOf(last'.is_class)]
  /\ \A i \in DOMAIN arena_chunks[CtxOf(last'.is_class)] :
       /\ arena_chunks[CtxOf(last'.is_class)][i] \in DOMAIN chunk'
       /\ chunk'[arena_chunks[CtxOf(last'.is_class)][i]]
            = chunk[arena_chunks[CtxOf(last'.is_class)][i]]
  /\ used_words_counter' = used_words_counter

\* C36: if MetaspaceArena::allocate returns an empty block, the arena is left
\* exactly as before the call: its chunk sequence, the level, used words and
\* committed words of each of its chunks, and the shared used-words counter
\* are unchanged (in particular a chunk is not left enlarged by a request
\* that then failed to commit).
C36_FailedAllocateLeavesArena ==
  [][(/\ AllocateStep
      /\ fatal' = "none"
      /\ ~last'.from_freeblocks
      /\ is_empty(last'.arena_result))
       => arena_as_before]_vars

\* the blocks stored in the three free-block indexes of the
\* ClassLoaderMetaspaceImpl, each with the index that holds it
stored_blocks ==
  {[index |-> "binlist_nc", block |-> b] : b \in free_blocks.binlist_nc}
    \cup {[index |-> "blocktree_nc", block |-> b] : b \in free_blocks.blocktree_nc}
    \cup {[index |-> "blocktree_c", block |-> b] : b \in free_blocks.blocktree_c}

C38_CounterRestoredByDestructor ==
  /\ last.op = "destroy" => fatal = "none"
  /\ destroyed = Instances =>
       \A ctx \in Contexts : used_words_counter[ctx] = 0

\* the chunks of a chunk sequence behind its head, the current chunk
retired_chunks(cs) == {cs[i] : i \in 2..Len(cs)}

\* C39: after any sequence of allocations, every chunk in an arena's chunk
\* sequence other than the current (most recently added) chunk has fewer than
\* minimum_allocation_words of committed-but-unused space: a chunk is never
\* retired without its committed remainder having been salvaged.
C39_RetiredChunksHaveNoRemainder ==
  \A who \in Instances : \A ctx \in Contexts :
    \A b \in retired_chunks(chunks_of(who)[ctx]) :
      free_below_committed_words(chunk[b]) < minimum_allocation_words

\* an allocate has just retired a chunk that had a committed remainder, and
\* handed the remainder out as wastage
C39_RemainderSalvaged ==
  /\ last.op = "allocate"
  /\ Called(last, "salvage_chunk")
  /\ ~is_empty(last.wastage)
  /\ \E b \in retired_chunks(arena_chunks[CtxOf(last.is_class)]) :
       /\ chunk[b].used = chunk[b].committed
       /\ last.wastage.base > b
       /\ last.wastage.base < b + chunk[b].used

\* the bases of the root chunks carved so far from the nodes of a list
carved_root_chunks(ctx) ==
  UNION {{nodes[ctx][i].base + k * MAX_CHUNK_WORD_SIZE :
            k \in 0..((nodes[ctx][i].used_words \div MAX_CHUNK_WORD_SIZE) - 1)} :
         i \in DOMAIN nodes[ctx]}

\* C40: across any sequence of allocate_root_chunk and
\* allocate_multiple_root_chunks calls on a VirtualSpaceList, no root chunk
\* is handed out twice, the free (uncarved) words of every node stay a
\* multiple of the root chunk size, and the handed-out chunks, the chunks in
\* the salvaged pool and the uncarved space of the first node together
\* account for exactly the reserved address space (no root chunk is lost by
\* salvaging): every carved root chunk is in the pool or with exactly one
\* receiver, and only the first node has uncarved space.
C40_RootChunksAccountedFor ==
  \A ctx \in Contexts :
    /\ \A i \in DOMAIN nodes[ctx] :
         /\ node_free_words(nodes[ctx][i]) % MAX_CHUNK_WORD_SIZE = 0
         /\ i > 1 => node_free_words(nodes[ctx][i]) = 0
    /\ \A b \in carved_root_chunks(ctx) :
         /\ b \in DOMAIN chunk
         /\ memberships(b) + occurs_in(last.out, b) = 1
    /\ \A i \in DOMAIN salvaged_root_chunks[ctx] :
         salvaged_root_chunks[ctx][i] \in carved_root_chunks(ctx)

\* a list with a second node and a salvaged root chunk in its pool, after a
\* request for adjacent root chunks left the caller with three or more
C40_SalvagedAndHandedOut ==
  \E ctx \in Contexts :
    /\ Len(nodes[ctx]) >= 2
    /\ salvaged_root_chunks[ctx] # <<>>
    /\ Len(last.out) >= 3
    /\ last.op = "allocate_multiple_root_chunks"
    /\ last.ok

\* the greatest of a set of nodes, the one created last (0 for no node)
newest(ns) == IF ns = {} THEN NULL ELSE CHOOSE n \in ns : \A m \in ns : m <= n

\* C31: VirtualSpaceList::contains(p), run without the lock concurrently
\* with create_new_node on another thread, always traverses a well-formed
\* node list: it observes either the old or the new first node, every node it
\* reaches already has its next pointer set to the rest of the list, and it
\* returns true for every p that lies in a node that was in the list before
\* the call started.
C31_ContainsWalksWellFormedList ==
  /\ ~reader.strayed
  /\ reader.pc \in {"walk", "done"} =>
       /\ reader.loaded = NULL => reader.before = {}
       /\ reader.loaded # NULL =>
            reader.loaded \in VsNodes /\ reader.loaded >= newest(reader.before)
  /\ (reader.pc = "walk" /\ reader.vsn # NULL) =>
       /\ node_next[reader.vsn] # Unset
       /\ nodes_from(reader.vsn, MaxNodes)
            = [i \in 1..reader.vsn |-> reader.vsn + 1 - i]
  /\ reader.pc = "done" =>
       ((\E n \in reader.before : node_contains(n, reader.p)) => reader.result)

\* contains has loaded a first node that was added after the call started,
\* walked on from it and found p in a node that was there before
C31_FoundBehindNewNode ==
  /\ reader.pc = "done"
  /\ reader.result
  /\ reader.loaded # NULL
  /\ reader.loaded \notin reader.before
  /\ \E n \in reader.before : node_contains(n, reader.p)

(***************************************************************************)
(* DlList against the sequence it stands for                               *)
(***************************************************************************)
\* s without its element p
without(s, p) == SelectSeq(s, LAMBDA x : x # p)
\* front()->prev() and back()->next() are null, count() is the walk's length
well_capped(D, l) ==
  /\ D.list[l].num = Len(walk(D, l))
  /\ (D.list[l].front = NULL) = (walk(D, l) = <<>>)
  /\ (D.list[l].back = NULL) = (walk(D, l) = <<>>)
  /\ walk(D, l) # <<>> =>
       /\ D.node[D.list[l].front].prev = NULL
       /\ D.node[D.list[l].back].next = NULL
       /\ D.list[l].back = walk(D, l)[Len(walk(D, l))]
\* what the call recorded in dl_last' makes of the sequence s of its list
abstract_sequence(s, c) ==
  CASE c.op = "push_front" -> <<c.p>> \o s
    [] c.op = "push_back" -> s \o <<c.p>>
    [] c.op = "pop_front" -> IF s = <<>> THEN s ELSE Tail(s)
    [] c.op = "pop_back" -> IF s = <<>> THEN s ELSE SubSeq(s, 1, Len(s) - 1)
    [] c.op = "remove" -> without(s, c.p)
    [] OTHER -> s
abstract_return(s, c) ==
  CASE c.op = "pop_front" -> IF s = <<>> THEN NULL ELSE Head(s)
    [] c.op = "pop_back" -> IF s = <<>> THEN NULL ELSE s[Len(s)]
    [] OTHER -> NULL
single_element_calls == {"push_front", "push_back", "pop_front", "pop_back", "remove"}

\* C33: every push_front, push_back, pop_front, pop_back and remove(p) does
\* to the walk from front() along next() what the same operation does to a
\* sequence: the walk afterwards is the sequence afterwards, in order,
\* count() is its length, front()->prev() and back()->next() are null, the
\* other list is untouched, remove(p) takes out exactly p, and a pop on an
\* empty list returns null and changes nothing.
C33_DlListIsASequence ==
  [][dl_last'.op \in single_element_calls =>
       /\ walk(Dl', dl_last'.list) = abstract_sequence(walk(Dl, dl_last'.list), dl_last')
       /\ dl_last'.ret = abstract_return(walk(Dl, dl_last'.list), dl_last')
       /\ \A l \in DlLists :
            /\ well_capped(Dl', l)
            /\ l # dl_last'.list => walk(Dl', l) = walk(Dl, l)
       /\ (dl_last'.op \in {"pop_front", "pop_back"} /\ dl_list[dl_last'.list].num = 0) =>
            /\ dl_last'.ret = NULL
            /\ dl_list' = dl_list /\ dl_node' = dl_node]_vars

\* element 2 has been removed from a list that still holds 1 and 3, now
\* linked to each other, and 2 is capped on both sides
C33_ElementRemoved ==
  /\ dl_last.op = "remove"
  /\ dl_last.p = 2
  /\ walk(Dl, dl_last.list) = <<1, 3>>
  /\ dl_node[1].next = 3 /\ dl_node[3].prev = 1
  /\ dl_node[2] = [prev |-> NULL, next |-> NULL]

\* C34: add_list_at_front / add_list_at_back put the elements of the other
\* list, in their order, before / after those of this list, count() becomes
\* the sum of both counts, the other list is left empty with count 0; an
\* empty other list changes nothing, and an empty list takes over exactly
\* the content of the other.
C34_AddListJoinsInOrder ==
  [][dl_last'.op \in {"add_list_at_front", "add_list_at_back"} =>
       /\ walk(Dl', dl_last'.list) =
            IF dl_last'.op = "add_list_at_front"
            THEN walk(Dl, dl_last'.other) \o walk(Dl, dl_last'.list)
            ELSE walk(Dl, dl_last'.list) \o walk(Dl, dl_last'.other)
       /\ dl_list'[dl_last'.list].num =
            dl_list[dl_last'.list].num + dl_list[dl_last'.other].num
       /\ dl_list'[dl_last'.other] = EmptyDlList
       /\ walk(Dl', dl_last'.other) = <<>>
       /\ \A l \in DlLists : well_capped(Dl', l)
       /\ dl_list[dl_last'.other].num = 0 =>
            dl_list' = dl_list /\ dl_node' = dl_node
       /\ dl_list[dl_last'.list].num = 0 =>
            walk(Dl', dl_last'.list) = walk(Dl, dl_last'.other)]_vars

\* two lists of two elements each have been joined at the back
C34_TwoAndTwoJoined ==
  /\ dl_last.op = "add_list_at_back"
  /\ dl_list[dl_last.list].num = 4
  /\ dl_list[dl_last.other].num = 0
  /\ walk(Dl, dl_last.list) = <<3, 4, 1, 2>>

(***************************************************************************)
(* The VMA tree                                                            *)
(***************************************************************************)
\* C35: after every register_create_mapping and register_release_mapping the
\* tree is in canonical form: one node per address, each node's incoming
\* state is the outgoing state of the node before it (NONE for the first),
\* the last node's outgoing state is NONE, no node has equal incoming and
\* outgoing state; and a release of a range covering every node leaves the
\* tree empty.
C35_VmaTreeCanonical ==
  [][vma_vars' # vma_vars =>
       /\ is_valid(vma_tree')
       /\ (/\ vma_last'.op = "release"
           /\ \A n \in vma_tree : vma_last'.from <= n.addr /\ n.addr <= vma_last'.to)
          => vma_tree' = {}]_vars

\* a mapping has been created inside an older one of another state: nodes
\* lie before its start and after its end, and its two ends are nodes that
\* change between the older state and the new one
C35_MappedInsideAnother ==
  /\ vma_last.op = "create"
  /\ \E a, b, c, d \in vma_tree :
       /\ a.addr < b.addr /\ b.addr = vma_last.from
       /\ c.addr = vma_last.to /\ c.addr < d.addr
       /\ b.state_in = c.state_out /\ b.state_in # NONE_STATE
       /\ b.state_out = vma_last.state /\ c.state_in = vma_last.state

====
